---- MODULE Spec2Model ----
(***************************************************************************)
(* State-machine model of the standalone multi-frame denoiser              *)
(* (src/src/blender/blender_viewport.cpp, lines 98-1005): channel          *)
(* discovery, tile queue and device callbacks, output registry, temp-file  *)
(* write-back and the frame driver.                                        *)
(*                                                                         *)
(* Strings are modelled as sequences of tokens; the token "." is the dot   *)
(* character and every other token is a dot-free word, so that splitting a *)
(* channel name at its last dot is computed, not assumed.                  *)
(* C++ indices are 0-based: a vector v of the code is a sequence s with    *)
(* v[i] = s[i+1].                                                          *)
(***************************************************************************)
EXTENDS Integers, Sequences, FiniteSets, TLC

(***************************************************************************)
(* Generic helpers                                                         *)
(***************************************************************************)

Min(a, b) == IF a < b THEN a ELSE b

Max(a, b) == IF a > b THEN a ELSE b

\* util: clamp(x, lo, hi) as used by map_neighboring_tiles
clamp(x, lo, hi) == Min(Max(x, lo), hi)

\* util: divide_up(x, y) = (x + y - 1) / y
divide_up(x, y) == (x + y - 1) \div y

\* std::find: 1-based position of the first element equal to x, Len(s)+1 for end()
Find(s, x) ==
  IF \E i \in 1..Len(s) : s[i] = x
  THEN CHOOSE i \in 1..Len(s) : s[i] = x /\ \A j \in 1..(i - 1) : s[j] # x
  ELSE Len(s) + 1

\* string::rfind("."): 1-based position of the last dot, 0 for npos
RFindDot(s) ==
  IF \E i \in 1..Len(s) : s[i] = "."
  THEN CHOOSE i \in 1..Len(s) : s[i] = "." /\ \A j \in (i + 1)..Len(s) : s[j] # "."
  ELSE 0

\* split_last_dot(in, suffix): found, the part after the last dot, the part before it
split_last_dot(in) ==
  LET pos == RFindDot(in) IN
  IF pos = 0
  THEN [found |-> FALSE, suffix |-> <<>>, in |-> in]
  ELSE [found |-> TRUE,
        suffix |-> SubSeq(in, pos + 1, Len(in)),
        in |-> SubSeq(in, 1, pos - 1)]

\* parse_channel_name(name, renderlayer, pass, channel, multiview_channels)
parse_channel_name(name, multiview_channels) ==
  LET s1 == split_last_dot(name)
      s2 == IF multiview_channels THEN split_last_dot(s1.in)
            ELSE [found |-> TRUE, suffix |-> <<>>, in |-> s1.in]
      s3 == split_last_dot(s2.in)
  IN IF ~s1.found THEN [ok |-> FALSE]
     ELSE IF multiview_channels /\ ~s2.found THEN [ok |-> FALSE]
     ELSE IF ~s3.found THEN [ok |-> FALSE]
     ELSE [ok |-> TRUE,
           renderlayer |-> IF multiview_channels
                           THEN s3.in \o <<".">> \o s2.suffix
                           ELSE s3.in,
           pass |-> s3.suffix,
           channel |-> s1.suffix]

(***************************************************************************)
(* Channel mapping                                                         *)
(***************************************************************************)

\* fill_mapping(map, pos, name, channels): one entry per character of channels
fill_mapping(map, pos, name, channels) ==
  map \o [k \in 1..Len(channels) |->
            [channel |-> pos + k - 1, name |-> <<name, ".", channels[k]>>]]

INPUT_NUM_CHANNELS == 15
INPUT_DENOISING_DEPTH == 0
INPUT_DENOISING_NORMAL == 1
INPUT_DENOISING_SHADOWING == 4
INPUT_DENOISING_ALBEDO == 5
INPUT_NOISY_IMAGE == 8
INPUT_DENOISING_VARIANCE == 11
INPUT_DENOISING_INTENSITY == 14

input_channels ==
  LET m1 == fill_mapping(<<>>, INPUT_DENOISING_DEPTH, "Denoising Depth", <<"Z">>)
      m2 == fill_mapping(m1, INPUT_DENOISING_NORMAL, "Denoising Normal", <<"X", "Y", "Z">>)
      m3 == fill_mapping(m2, INPUT_DENOISING_SHADOWING, "Denoising Shadowing", <<"X">>)
      m4 == fill_mapping(m3, INPUT_DENOISING_ALBEDO, "Denoising Albedo", <<"R", "G", "B">>)
      m5 == fill_mapping(m4, INPUT_NOISY_IMAGE, "Noisy Image", <<"R", "G", "B">>)
      m6 == fill_mapping(m5, INPUT_DENOISING_VARIANCE, "Denoising Variance", <<"R", "G", "B">>)
  IN fill_mapping(m6, INPUT_DENOISING_INTENSITY, "Denoising Intensity", <<"X">>)

OUTPUT_NUM_CHANNELS == 3

output_channels == fill_mapping(<<>>, 0, "Combined", <<"R", "G", "B">>)

(***************************************************************************)
(* Renderlayer handling                                                    *)
(***************************************************************************)

\* A loop that stores the position of a channel within its layer, not within the file
RECURSIVE DetectLoopLocal(_, _, _, _)
DetectLoopLocal(layer, mappings, k, table) ==
  IF k > Len(mappings) THEN [ok |-> TRUE, table |-> table]
  ELSE IF Find(layer.channels, mappings[k].name) = Len(layer.channels) + 1
  THEN [ok |-> FALSE, table |-> table]
  ELSE DetectLoopLocal(layer, mappings, k + 1,
                       [table EXCEPT ![mappings[k].channel + 1] =
                                       Find(layer.channels, mappings[k].name) - 1])

\* The loop of detect_denoising_channels over one mapping list: the table after
\* the loop, or ok = FALSE at the first mapping whose name the layer lacks.
RECURSIVE DetectLoop(_, _, _, _)
DetectLoop(layer, mappings, k, table) ==
  IF k > Len(mappings) THEN [ok |-> TRUE, table |-> table]
  ELSE LET i == Find(layer.channels, mappings[k].name) IN
       IF i = Len(layer.channels) + 1 THEN [ok |-> FALSE, table |-> table]
       ELSE DetectLoop(layer, mappings, k + 1,
                       [table EXCEPT ![mappings[k].channel + 1] =
                                       layer.layer_to_image_channel[i]])

\* The return of detect_denoising_channels, given what its two loops found: the
\* output loop does not run when the input loop failed
DetectResult(layer, inp, outp) ==
  IF ~inp.ok
  THEN [ok |-> FALSE, layer |-> [layer EXCEPT !.input_to_image_channel = inp.table]]
  ELSE [ok |-> outp.ok,
        layer |-> [layer EXCEPT !.input_to_image_channel = inp.table,
                                !.output_to_image_channel = outp.table]]

\* DenoiseImageLayer::detect_denoising_channels
detect_denoising_channels(layer) ==
  DetectResult(layer,
               DetectLoop(layer, input_channels, 1, [s \in 1..INPUT_NUM_CHANNELS |-> -1]),
               DetectLoop(layer, output_channels, 1, [s \in 1..OUTPUT_NUM_CHANNELS |-> -1]))

\* The loop of match_channels over the 15 slots
RECURSIVE MatchLoop(_, _, _, _, _)
MatchLoop(layer, channelnames, neighbor_channelnames, i, mapping) ==
  IF i > Len(layer.input_to_image_channel) THEN [ok |-> TRUE, mapping |-> mapping]
  ELSE LET channel == channelnames[layer.input_to_image_channel[i] + 1]
           p == Find(neighbor_channelnames, channel)
       IN IF p = Len(neighbor_channelnames) + 1
          THEN [ok |-> FALSE, mapping |-> mapping]
          ELSE MatchLoop(layer, channelnames, neighbor_channelnames, i + 1,
                         [mapping EXCEPT ![i] = p - 1])

\* The layer after match_channels stored the mapping r found for a neighbor
MatchResult(layer, neighbor, r) ==
  [ok |-> r.ok,
   layer |-> [layer EXCEPT !.neighbor_input_to_image_channel =
                SubSeq(@, 1, neighbor) \o <<r.mapping>>]]

\* DenoiseImageLayer::match_channels(neighbor, channelnames, neighbor_channelnames);
\* neighbor is the 0-based index, equal to the current number of mappings
match_channels(layer, neighbor, channelnames, neighbor_channelnames) ==
  MatchResult(layer, neighbor,
              MatchLoop(layer, channelnames, neighbor_channelnames, 1,
                        [s \in 1..Len(layer.input_to_image_channel) |-> -1]))

(***************************************************************************)
(* Image container files (the input of the program)                        *)
(***************************************************************************)

\* Bounds of the inputs
MaxWidth == 3
MaxHeight == 2
MaxTileSize == 2
MaxThreads == 2
MaxFrames == 2
MaxBlurSize == 7
MaxSequence == 4
MaxHalfWindow == 2

\* Value of a digit character
DigitVal(c) ==
  CASE c = "0" -> 0 [] c = "1" -> 1 [] c = "2" -> 2 [] c = "3" -> 3 [] c = "4" -> 4
    [] c = "5" -> 5 [] c = "6" -> 6 [] c = "7" -> 7 [] c = "8" -> 8 [] c = "9" -> 9

IsDigit(c) == c \in {"0", "1", "2", "3", "4", "5", "6", "7", "8", "9"}

\* Value of the maximal digit run of s starting at position i, with acc so far
RECURSIVE DigitRun(_, _, _)
DigitRun(s, i, acc) ==
  IF i > Len(s) \/ ~IsDigit(s[i]) THEN acc
  ELSE DigitRun(s, i + 1, 10 * acc + DigitVal(s[i]))

\* sscanf(s, "%d", &v): ret is the number of conversions (1), 0 on a matching
\* failure, -1 (EOF) when the input ends before any conversion; val the number read
sscanf_d(s) ==
  LET nonspace == {i \in 1..Len(s) : s[i] # " "}
      i == IF nonspace = {} THEN Len(s) + 1
           ELSE CHOOSE k \in nonspace : \A j \in nonspace : k <= j
      signed == i <= Len(s) /\ s[i] \in {"-", "+"}
      j == IF signed THEN i + 1 ELSE i
  IN IF i > Len(s) THEN [ret |-> -1, val |-> 0]
     ELSE IF j > Len(s) \/ ~IsDigit(s[j]) THEN [ret |-> 0, val |-> 0]
     ELSE [ret |-> 1,
           val |-> IF signed /\ s[i] = "-" THEN 0 - DigitRun(s, j, 0)
                   ELSE DigitRun(s, j, 0)]

\* Name of the attribute holding a layer's sample count: "cycles." + name + ".samples"
SamplesAttr(name) == <<"cycles", ".">> \o name \o <<".", "samples">>

\* ImageSpec::get_string_attribute(name, ""): the attribute, "" when it is missing
get_string_attribute(in_spec, name) ==
  IF name \in DOMAIN in_spec.attributes THEN in_spec.attributes[name] ELSE <<>>

\* Order of the characters that occur in layer names ('.' sorts before letters)
TokenRank(t) ==
  CASE t = "." -> 0 [] t = "A" -> 1 [] t = "B" -> 2 [] t = "left" -> 3
    [] t = "right" -> 4 [] OTHER -> 5

\* std::less<string> on layer names, the order of map<string, DenoiseImageLayer>
RECURSIVE StrLess(_, _)
StrLess(a, b) ==
  IF Len(b) = 0 THEN FALSE
  ELSE IF Len(a) = 0 THEN TRUE
  ELSE IF TokenRank(a[1]) # TokenRank(b[1]) THEN TokenRank(a[1]) < TokenRank(b[1])
  ELSE StrLess(Tail(a), Tail(b))

\* The keys of a map taken from the last to the first
RECURSIVE SortedKeysDescending(_)
SortedKeysDescending(S) ==
  IF S = {} THEN <<>>
  ELSE LET m == CHOOSE x \in S : \A y \in S \ {x} : StrLess(y, x)
       IN <<m>> \o SortedKeysDescending(S \ {m})

\* The keys of a map in iteration order
RECURSIVE SortedKeys(_)
SortedKeys(S) ==
  IF S = {} THEN <<>>
  ELSE LET m == CHOOSE x \in S : \A y \in S \ {x} : StrLess(x, y)
       IN <<m>> \o SortedKeys(S \ {m})

\* A default-constructed DenoiseImageLayer
EmptyLayer ==
  [name |-> <<>>, channels |-> <<>>, layer_to_image_channel |-> <<>>,
   input_to_image_channel |-> <<>>, output_to_image_channel |-> <<>>,
   neighbor_input_to_image_channel |-> <<>>, samples |-> 0]

\* parse_channel_name of every channel of the file, in file order
ParsedNames(channels, multiview_channels) ==
  [i \in 1..Len(channels) |-> parse_channel_name(channels[i], multiview_channels)]

\* file_layers after the first loop of parse_channels, P being the parsed channel
\* names: every render layer with its channels (pass.channel) and their file
\* indices, in file order
FileLayers(P) ==
  [key \in {P[i].renderlayer : i \in {j \in 1..Len(P) : P[j].ok}} |->
     LET idx == SelectSeq([i \in 1..Len(P) |-> i],
                          LAMBDA i : P[i].ok /\ P[i].renderlayer = key)
     IN [EmptyLayer EXCEPT
           !.channels = [k \in 1..Len(idx) |->
                           P[idx[k]].pass \o <<".">> \o P[idx[k]].channel],
           !.layer_to_image_channel = [k \in 1..Len(idx) |-> idx[k] - 1]]]

\* First loop of parse_channels: group the channels of the file by render layer
GroupChannels(channels, multiview_channels) ==
  FileLayers(ParsedNames(channels, multiview_channels))

\* A sample count that falls back to one sample when the file gives none
SamplesDefaultOne(name, samples, sample_string, r) ==
  IF samples >= 1 THEN [ok |-> TRUE, samples |-> samples, error |-> <<>>]
  ELSE [ok |-> TRUE, error |-> <<>>,
        samples |-> IF sample_string # <<>> /\ r.ret = 1 /\ r.val >= 1 THEN r.val ELSE 1]

\* The sample count of a layer, given the attribute string and what sscanf made of it
SamplesFrom(name, samples, sample_string, r) ==
  IF samples >= 1 THEN [ok |-> TRUE, samples |-> samples, error |-> <<>>]
  ELSE IF sample_string # <<>> /\ r.ret = 0
  THEN [ok |-> FALSE, samples |-> samples,
        error |-> <<"Failed to parse samples metadata: ", sample_string>>]
  ELSE IF (IF sample_string # <<>> /\ r.ret = 1 THEN r.val ELSE samples) < 1
  THEN [ok |-> FALSE, samples |-> samples,
        error |-> <<"No sample number specified in the file for layer", name>>]
  ELSE [ok |-> TRUE, error |-> <<>>,
        samples |-> IF sample_string # <<>> /\ r.ret = 1 THEN r.val ELSE samples]

\* Sample count of a layer with the full channel set (parse_channels, lines 727-747)
ResolveSamples(in_spec, name, samples) ==
  SamplesFrom(name, samples, get_string_attribute(in_spec, SamplesAttr(name)),
              sscanf_d(get_string_attribute(in_spec, SamplesAttr(name))))

\* A pass of the second loop that resolves the sample count of a layer before it
\* looks at the layer's channels
LayerStepSamplesFirst(acc, name, d, s) ==
  IF ~s.ok THEN [ok |-> FALSE, error |-> s.error, layers |-> acc.layers]
  ELSE IF ~d.ok THEN acc
  ELSE [acc EXCEPT !.layers = Append(@, [d.layer EXCEPT !.name = name,
                                                        !.samples = s.samples])]

\* One pass of the second loop of parse_channels: acc is what was found so far, d
\* what detect_denoising_channels returned for the layer, s its sample count
LayerStep(acc, name, d, s) ==
  IF ~d.ok THEN acc
  ELSE IF ~s.ok THEN [ok |-> FALSE, error |-> s.error, layers |-> acc.layers]
  ELSE [acc EXCEPT !.layers = Append(@, [d.layer EXCEPT !.name = name,
                                                        !.samples = s.samples])]

\* Second loop of parse_channels, over the map in key order; it ends at the first
\* error
RECURSIVE LayerLoop(_, _, _, _, _, _)
LayerLoop(in_spec, file_layers, keys, k, samples, acc) ==
  IF k > Len(keys) \/ ~acc.ok THEN acc
  ELSE LayerLoop(in_spec, file_layers, keys, k + 1, samples,
                 LayerStep(acc, keys[k], detect_denoising_channels(file_layers[keys[k]]),
                           ResolveSamples(in_spec, keys[k], samples)))

\* parse_channels once the channels are grouped
ParseLayers(in_spec, samples, file_layers) ==
  LayerLoop(in_spec, file_layers, SortedKeys(DOMAIN file_layers), 1, samples,
            [ok |-> TRUE, error |-> <<>>, layers |-> <<>>])

\* DenoiseImage::parse_channels(in_spec, error), samples being DenoiseImage::samples
parse_channels(in_spec, samples) ==
  ParseLayers(in_spec, samples, GroupChannels(in_spec.channelnames, in_spec.multiview))

(***************************************************************************)
(* The family of input files the model draws from                          *)
(***************************************************************************)

\* The channels a file may lack in one of its layers ("" = none), as pass.component
LayerKinds ==
  {"full", "absent", "no Denoising Depth.Z", "no Noisy Image.G",
   "no Denoising Intensity.X", "no Combined.B"}

MissingOf(kind) ==
  CASE kind = "no Denoising Depth.Z" -> {<<"Denoising Depth", ".", "Z">>}
    [] kind = "no Noisy Image.G" -> {<<"Noisy Image", ".", "G">>}
    [] kind = "no Denoising Intensity.X" -> {<<"Denoising Intensity", ".", "X">>}
    [] kind = "no Combined.B" -> {<<"Combined", ".", "B">>}
    [] OTHER -> {}

\* File name of a channel: RenderLayer.Pass.Channel, or RenderLayer.Pass.View.Channel
ChannelFileName(layer, view, passchan, multiview) ==
  IF multiview
  THEN layer \o <<".", passchan[1], ".", view, ".", passchan[3]>>
  ELSE layer \o <<".">> \o passchan

\* The channels of one render layer of a file of the given kind, in canonical order
LayerFileChannels(layer, view, kind, multiview) ==
  LET all == input_channels \o output_channels
      kept == SelectSeq(all, LAMBDA m : m.name \notin MissingOf(kind))
  IN IF kind = "absent" THEN <<>>
     ELSE [k \in 1..Len(kept) |-> ChannelFileName(layer, view, kept[k].name, multiview)]

Reverse(s) == [k \in 1..Len(s) |-> s[Len(s) + 1 - k]]

\* Channels outside the denoising set: one whose name has too few components, one
\* without any dot, and one extra pass of the first layer
ExtraChannels(multiview) ==
  <<<<"Shadow", ".", "R">>, <<"Z">>,
    ChannelFileName(<<"A">>, "left", <<"Mist", ".", "Z">>, multiview)>>

\* Render layer keys of the two layers of a file
LayerKeyA(multiview) == IF multiview THEN <<"A", ".", "left">> ELSE <<"A">>

LayerKeyB(multiview) == IF multiview THEN <<"A", ".", "right">> ELSE <<"B">>

\* The ordered channel names of a file
FileChannelNames(kindA, kindB, extras, reversed, multiview) ==
  LET a == LayerFileChannels(<<"A">>, "left", kindA, multiview)
      b == IF multiview THEN LayerFileChannels(<<"A">>, "right", kindB, TRUE)
           ELSE LayerFileChannels(<<"B">>, "", kindB, FALSE)
      e == IF extras THEN ExtraChannels(multiview) ELSE <<>>
      base == a \o e \o b
  IN IF reversed THEN Reverse(base) ELSE base

\* Values of the cycles.<layer>.samples attribute (<<>>: the attribute is missing)
SampleStrings ==
  {<<>>, <<"4">>, <<"1", "2">>, <<"0">>, <<"-", "3">>, <<"x">>, <<" ">>,
   <<"2", "x">>, <<" ", "7">>}

\* The attributes of a file whose layers carry the sample strings sa and sb
FileAttributes(sa, sb, multiview) ==
  LET ka == SamplesAttr(LayerKeyA(multiview))
      kb == SamplesAttr(LayerKeyB(multiview))
  IN [n \in (IF sa = <<>> THEN {} ELSE {ka}) \cup (IF sb = <<>> THEN {} ELSE {kb}) |->
        IF n = ka THEN sa ELSE sb]

\* Value stored in file id at pixel i (0-based), channel c (0-based)
FilePixelValue(id, i, c) == 1000 * (id + 1) + 50 * i + c

\* An image file: what the file system and the container reader report about it
MakeFile(id, w, h, names, attrs, multiview, regular, openable, readable) ==
  [id |-> id, regular |-> regular, openable |-> openable, readable |-> readable,
   spec |-> [width |-> w, height |-> h, nchannels |-> Len(names),
             channelnames |-> names, multiview |-> multiview, attributes |-> attrs],
   pixels |-> [k \in 1..(w * h * Len(names)) |->
                 FilePixelValue(id, (k - 1) \div Len(names), (k - 1) % Len(names))]]

(***************************************************************************)
(* State                                                                   *)
(***************************************************************************)

VARIABLES
  fs,               \* the file system: path -> file, or NoFile
  input,            \* Denoiser::input, the input path of each frame
  output,           \* Denoiser::output, the output path of each frame (<<>>: empty)
  samples_override, \* Denoiser::samples_override
  tile_size,        \* Denoiser::tile_size, [x, y]
  params,           \* Denoiser::params: neighbor_frames, radius, clamp_input
  nthreads,         \* number of worker threads of the device
  io_faults,        \* the container operations that may fail in this run
  kernel_modes,     \* what the device kernel may do with a tile: filter it (TRUE),
                    \* skip it (FALSE)
  pc,               \* position of the main thread in Denoiser::run
  frame,            \* loop variable of Denoiser::run
  num_frames,       \* Denoiser::num_frames
  error,            \* Denoiser::error
  run_result,       \* return value of Denoiser::run as "true" or "false" ("none" while running)
  task,             \* the DenoiseTask of the frame: frame, neighbor_frames,
                    \* current_layer, error, num_tiles
  image,            \* DenoiseTask::image, the DenoiseImage
  input_pixels,     \* DenoiseTask::input_pixels, the device input buffer
  tiles,            \* DenoiseTask::tiles, the tile queue
  output_pixels,    \* DenoiseTask::output_pixels: tile_index -> output buffer
  tiles_mutex,      \* owner of DenoiseTask::tiles_mutex, 0 when free
  output_mutex,     \* owner of DenoiseTask::output_mutex, 0 when free
  threads,          \* the device worker threads: pc and the RenderTile[10] of each
  save,             \* locals of DenoiseImage::save_output
  handed,           \* history: the tiles acquire_tile returned, in order
  acquire_log,      \* history: per acquire_tile call, the queue length and the result
  assert_failed,    \* history: the assert() calls that failed
  events            \* history: the stages of Denoiser::run, in order

cfg_vars == <<input, output, samples_override, tile_size, params, nthreads, io_faults,
              kernel_modes>>

run_vars == <<pc, frame, num_frames, error, run_result>>

task_vars == <<task, image, input_pixels>>

tile_vars == <<tiles, output_pixels, tiles_mutex, output_mutex, threads>>

hist_vars == <<handed, acquire_log, assert_failed, events>>

vars == <<fs, cfg_vars, run_vars, task_vars, tile_vars, save, hist_vars>>

NoFile == [regular |-> FALSE]

NoTile == [x |-> 0, y |-> 0, w |-> 0, h |-> 0, num_samples |-> 0, offset |-> 0,
           stride |-> 0, tile_index |-> -1, buffer |-> "null"]

\* DenoiseImage::DenoiseImage
EmptyImage ==
  [width |-> 0, height |-> 0, num_channels |-> 0, samples |-> 0,
   in_spec |-> [width |-> 0, height |-> 0, nchannels |-> 0, channelnames |-> <<>>,
                multiview |-> FALSE, attributes |-> <<>>],
   layers |-> <<>>, pixels |-> <<>>, in_neighbors |-> <<>>]

NoTask ==
  [frame |-> -1, neighbor_frames |-> <<>>, current_layer |-> 0, error |-> <<>>,
   num_tiles |-> 0]

NoSave == [tmp_filepath |-> <<>>, out_spec |-> <<>>, ok |-> TRUE, out |-> "null"]

IdleThread == [pc |-> "off", tiles |-> [i \in 0..9 |-> NoTile], output_mem |-> <<>>]

Threads == 1..nthreads

InputPath(f) == <<"in", f>>

OutputPath(f) == <<"out", f>>

\* OIIO::Filesystem::unique_path() and extension(): the temporary file of a target
TmpPath(out_filepath) == out_filepath \o <<".denoise-tmp-", "unique", ".exr">>

\* What a target path holds when an earlier run left a file there
OldFile ==
  [id |-> -2, regular |-> TRUE, openable |-> TRUE, readable |-> TRUE,
   spec |-> EmptyImage.in_spec, pixels |-> <<>>]

\* The state at the start of Denoiser::run, for the given files and configuration;
\* olds: the frames whose target path holds a file already
InitState(files, outs, olds, so, ts, p, nt, faults, modes) ==
  /\ fs = [path \in {InputPath(f) : f \in 0..(Len(files) - 1)}
                    \cup {OutputPath(f) : f \in 0..(Len(files) - 1)}
                    \cup {TmpPath(OutputPath(f)) : f \in 0..(Len(files) - 1)}
                    \cup {TmpPath(InputPath(f)) : f \in 0..(Len(files) - 1)} |->
             IF \E f \in 0..(Len(files) - 1) : path = InputPath(f)
             THEN files[path[2] + 1]
             ELSE IF \E f \in olds : path = OutputPath(f) THEN OldFile
             ELSE NoFile]
  /\ input = [k \in 1..Len(files) |-> InputPath(k - 1)]
  /\ output = outs
  /\ samples_override = so
  /\ tile_size = ts
  /\ params = p
  /\ nthreads = nt
  /\ io_faults = faults
  /\ kernel_modes = modes
  /\ pc = "run"
  /\ frame = 0
  /\ num_frames = 0
  /\ error = <<>>
  /\ run_result = "none"
  /\ task = NoTask
  /\ image = EmptyImage
  /\ input_pixels = <<>>
  /\ tiles = <<>>
  /\ output_pixels = <<>>
  /\ tiles_mutex = 0
  /\ output_mutex = 0
  /\ threads = [t \in 1..nt |-> IdleThread]
  /\ save = NoSave
  /\ handed = <<>>
  /\ acquire_log = <<>>
  /\ assert_failed = {}
  /\ events = <<>>

(***************************************************************************)
(* Denoise image storage                                                   *)
(***************************************************************************)

\* kernel/filter/filter_defines.h: cap on the frames of one task, center included
DENOISE_MAX_FRAMES == 16

\* DenoiseImage::close_input
close_input(img) == [img EXCEPT !.in_neighbors = <<>>]

\* DenoiseImage::free
DenoiseImage_free(img) == [close_input(img) EXCEPT !.pixels = <<>>]

\* DenoiseImage::load after the file was opened: img holds the file's spec and
\* dimensions, parsed is what parse_channels returned
LoadParsed(img, in_filepath, file, parsed) ==
  IF ~parsed.ok
  THEN [ok |-> FALSE, error |-> parsed.error,
        image |-> [img EXCEPT !.layers = parsed.layers]]
  ELSE IF Len(parsed.layers) = 0
  THEN [ok |-> FALSE,
        error |-> <<"Could not find a render layer containing denoising info">>,
        image |-> [img EXCEPT !.layers = parsed.layers]]
  ELSE IF ~file.readable
  THEN [ok |-> FALSE, error |-> <<"Failed to read image: ", in_filepath>>,
        image |-> [img EXCEPT !.layers = parsed.layers,
                              !.pixels = [k \in 1..(img.width * img.height
                                                    * img.num_channels) |-> 0]]]
  ELSE [ok |-> TRUE, error |-> <<>>,
        image |-> [img EXCEPT !.layers = parsed.layers, !.pixels = file.pixels]]

\* DenoiseImage::load(in_filepath, error), file being what in_filepath holds
DenoiseImage_load(img, in_filepath, file) ==
  IF ~file.regular
  THEN [ok |-> FALSE, error |-> <<"Couldn't find file: ", in_filepath>>, image |-> img]
  ELSE IF ~file.openable
  THEN [ok |-> FALSE, error |-> <<"Couldn't open file: ", in_filepath>>, image |-> img]
  ELSE LoadParsed([img EXCEPT !.in_spec = file.spec,
                              !.width = file.spec.width,
                              !.height = file.spec.height,
                              !.num_channels = file.spec.nchannels],
                  in_filepath, file, parse_channels(file.spec, img.samples))

\* One pass of the foreach over the layers in load_neighbors: layer k after
\* match_channels returned m
MatchStep(acc, k, m) == [ok |-> m.ok, layers |-> [acc.layers EXCEPT ![k] = m.layer]]

\* The foreach over the layers in load_neighbors: match_channels on every layer,
\* stopping at the first that fails
RECURSIVE MatchLayers(_, _, _, _, _)
MatchLayers(acc, k, neighbor, channelnames, neighbor_channelnames) ==
  IF k > Len(acc.layers) \/ ~acc.ok THEN acc
  ELSE MatchLayers(MatchStep(acc, k,
                             match_channels(acc.layers[k], neighbor, channelnames,
                                            neighbor_channelnames)),
                   k + 1, neighbor, channelnames, neighbor_channelnames)

\* The end of one pass of the loop of load_neighbors: m is what the foreach over
\* the layers returned
NeighborMatched(img, filepath, m) ==
  IF ~m.ok
  THEN [ok |-> FALSE,
        error |-> <<"Neighbor frame misses denoising data passes: ", filepath>>,
        image |-> [img EXCEPT !.layers = m.layers]]
  ELSE [ok |-> TRUE, error |-> <<>>,
        image |-> [img EXCEPT !.layers = m.layers,
                              !.in_neighbors = Append(@, filepath)]]

\* A load_neighbors that does not compare the neighbor's dimensions with the center's
OpenNeighborAnySize(img, filepath, file, neighbor) ==
  IF ~file.regular
  THEN [ok |-> FALSE, error |-> <<"Couldn't find neighbor frame: ", filepath>>,
        image |-> img]
  ELSE IF ~file.openable
  THEN [ok |-> FALSE, error |-> <<"Couldn't open neighbor frame: ", filepath>>,
        image |-> img]
  ELSE NeighborMatched(img, filepath,
                       MatchLayers([ok |-> TRUE, layers |-> img.layers], 1, neighbor,
                                   img.in_spec.channelnames, file.spec.channelnames))

\* One pass of the loop of load_neighbors, for the 0-based index neighbor, file
\* being what filepath holds
OpenNeighbor(img, filepath, file, neighbor) ==
  IF ~file.regular
  THEN [ok |-> FALSE, error |-> <<"Couldn't find neighbor frame: ", filepath>>,
        image |-> img]
  ELSE IF ~file.openable
  THEN [ok |-> FALSE, error |-> <<"Couldn't open neighbor frame: ", filepath>>,
        image |-> img]
  ELSE IF file.spec.width # img.width \/ file.spec.height # img.height
  THEN [ok |-> FALSE,
        error |-> <<"Neighbor frame has different dimensions: ", filepath>>,
        image |-> img]
  ELSE NeighborMatched(img, filepath,
                       MatchLayers([ok |-> TRUE, layers |-> img.layers], 1, neighbor,
                                   img.in_spec.channelnames, file.spec.channelnames))

\* The loop of load_neighbors from neighbor index `neighbor` on; it ends at the
\* first error
RECURSIVE NeighborLoop(_, _, _, _, _)
NeighborLoop(acc, filepaths, frames, neighbor, files) ==
  IF neighbor >= Len(frames) \/ ~acc.ok THEN acc
  ELSE NeighborLoop(OpenNeighbor(acc.image, filepaths[frames[neighbor + 1] + 1],
                                 files[filepaths[frames[neighbor + 1] + 1]], neighbor),
                    filepaths, frames, neighbor + 1, files)

\* DenoiseImage::load_neighbors(filepaths, frames, error); an open reader is
\* modelled by the path it reads
load_neighbors(img, filepaths, frames, files) ==
  IF Len(frames) > DENOISE_MAX_FRAMES - 1
  THEN [ok |-> FALSE, error |-> <<"Maximum number of neighbors exceeded">>, image |-> img]
  ELSE NeighborLoop([ok |-> TRUE, error |-> <<>>, image |-> img], filepaths, frames, 0,
                    files)

\* DenoiseImage::read_pixels(layer, input_pixels): the slab of the center frame
read_pixels(img, layer) ==
  [k \in 1..(img.width * img.height * INPUT_NUM_CHANNELS) |->
     LET i == (k - 1) \div INPUT_NUM_CHANNELS
         j == (k - 1) % INPUT_NUM_CHANNELS
         image_channel == layer.input_to_image_channel[j + 1]
     IN img.pixels[i * img.num_channels + image_channel + 1]]

\* What a read of memory that read_neighbor_pixels never initialised, or of memory
\* past the end of its temporary buffer, can yield: "benign" is fresh memory that
\* is zero and memory past the buffer that still holds what read_image wrote
\* there; "garbage" is any other content, here -1
UndefinedReads == {"benign", "garbage"}

\* Element idx (0-based) of the temporary buffer of read_neighbor_pixels, which has
\* size elements and into which read_image wrote the pixels of the neighbor file
NeighborPixelAt(file, size, idx, undef) ==
  IF idx < size /\ idx < Len(file.pixels) THEN file.pixels[idx + 1]
  ELSE IF undef = "garbage" THEN -1
  ELSE IF idx < Len(file.pixels) THEN file.pixels[idx + 1]
  ELSE 0

\* The index read_neighbor_pixels takes from its temporary buffer for pixel i and
\* input slot j of the layer
NeighborIndex(img, neighbor, layer, i, j) ==
  i * img.num_channels + layer.neighbor_input_to_image_channel[neighbor + 1][j + 1]

\* DenoiseImage::read_neighbor_pixels(neighbor, layer, input_pixels): the temporary
\* buffer has width*height*num_channels elements, num_channels being the channel
\* count of the center file
read_neighbor_pixels(img, neighbor, layer, files, undef) ==
  [k \in 1..(img.width * img.height * INPUT_NUM_CHANNELS) |->
     NeighborPixelAt(files[img.in_neighbors[neighbor + 1]],
                     img.width * img.height * img.num_channels,
                     NeighborIndex(img, neighbor, layer, (k - 1) \div INPUT_NUM_CHANNELS,
                                   (k - 1) % INPUT_NUM_CHANNELS),
                     undef)]

(***************************************************************************)
(* Preprocessing of the device input buffer                                *)
(***************************************************************************)

RECURSIVE GCD(_, _)
GCD(a, b) == IF b = 0 THEN a ELSE GCD(b, a % b)

Abs(a) == IF a < 0 THEN 0 - a ELSE a

\* The exact quotient num / den (den > 0) in lowest terms
Rat(num, den) ==
  LET g == GCD(Abs(num), den) IN [num |-> num \div g, den |-> den \div g]

RatAdd(a, b) == Rat(a.num * b.den + b.num * a.den, a.den * b.den)

RatDiv(a, n) == Rat(a.num, a.den * n)

RECURSIVE RatSum(_, _)
RatSum(f, S) ==
  IF S = {} THEN Rat(0, 1)
  ELSE LET x == CHOOSE x \in S : TRUE IN RatAdd(f[x], RatSum(f, S \ {x}))

\* The clamp of load_input_pixels: every float of the slab into [-1e8, 1e8]
ClampSlab(slab, clamp_input) ==
  IF clamp_input
  THEN [k \in 1..Len(slab) |-> clamp(slab[k], 0 - 100000000, 100000000)]
  ELSE slab

\* A blur window that reaches one position further to the left
BlurWindowLeft(x, r, n) == Max(x - r - 1, 0)..(Min(x + r + 1, n) - 1)

\* Columns (rows) the box blur of half-width r averages over at position x of n
BlurWindow(x, r, n) == Max(x - r, 0)..(Min(x + r + 1, n) - 1)

\* The horizontal pass: temp[y * w + x], 0-based pixel index -> average
BlurTemp(slab, w, h, r) ==
  [p \in 0..(w * h - 1) |->
     LET x == p % w
         y == p \div w
         win == BlurWindow(x, r, w)
         data == [dx \in win |->
                    Rat(slab[INPUT_NUM_CHANNELS * (y * w + dx)
                             + INPUT_DENOISING_INTENSITY + 1], 1)]
     IN RatDiv(RatSum(data, win), Cardinality(win))]

\* The vertical pass over the temporary values temp: slot 14 of every pixel replaced
\* by the average, every other slot kept
BlurVertical(slab, w, h, r, temp) ==
  [k \in 1..Len(slab) |->
     IF (k - 1) % INPUT_NUM_CHANNELS = INPUT_DENOISING_INTENSITY
     THEN RatDiv(RatSum([dy \in BlurWindow(((k - 1) \div INPUT_NUM_CHANNELS) \div w, r, h) |->
                           temp[dy * w + (((k - 1) \div INPUT_NUM_CHANNELS) % w)]],
                        BlurWindow(((k - 1) \div INPUT_NUM_CHANNELS) \div w, r, h)),
                 Cardinality(BlurWindow(((k - 1) \div INPUT_NUM_CHANNELS) \div w, r, h)))
     ELSE slab[k]]

\* A box blur without the vertical pass: slot 14 gets the temporary value
BoxBlurHorizontalOnly(slab, w, h, r) ==
  [k \in 1..Len(slab) |->
     IF (k - 1) % INPUT_NUM_CHANNELS = INPUT_DENOISING_INTENSITY
     THEN BlurTemp(slab, w, h, r)[(k - 1) \div INPUT_NUM_CHANNELS]
     ELSE slab[k]]

\* The box blur of one frame slab: the horizontal pass into temp, then the vertical
\* pass back into slot 14
BoxBlur(slab, w, h, r) == BlurVertical(slab, w, h, r, BlurTemp(slab, w, h, r))

\* Clamp and box blur of one frame slab
Preprocess(slab, w, h, p) == BoxBlur(ClampSlab(slab, p.clamp_input), w, h, 5 * p.radius)

\* The device input buffer made of the frame slabs, center first
JoinSlabs(slabs, len, frame_stride) ==
  [k \in 1..len |-> slabs[(k - 1) \div frame_stride][((k - 1) % frame_stride) + 1]]

\* The slab of frame s of the buffer as read from the files (0: the center)
RawSlab(img, image_layer, s, files, undef) ==
  IF s = 0 THEN read_pixels(img, image_layer)
  ELSE read_neighbor_pixels(img, s - 1, image_layer, files, undef)

\* DenoiseTask::load_input_pixels(layer). unreadable: the paths of the files whose
\* read_image fails; undef: what undefined reads yield. On failure the slabs read so far are in the buffer, unprocessed.
load_input_pixels(img, buffer, layer, p, files, unreadable, undef) ==
  LET frame_stride == img.width * img.height * INPUT_NUM_CHANNELS
      n == Len(img.in_neighbors)
      image_layer == img.layers[layer + 1]
      bad == {i \in 0..(n - 1) : img.in_neighbors[i + 1] \in unreadable}
      first_bad == IF bad = {} THEN n ELSE CHOOSE i \in bad : \A j \in bad : i <= j
  IN IF bad # {}
     THEN [ok |-> FALSE, error |-> <<"Failed to read neighbor frame pixels">>,
           input_pixels |->
             JoinSlabs([s \in 0..n |->
                          IF s <= first_bad THEN RawSlab(img, image_layer, s, files, undef)
                          ELSE SubSeq(buffer, s * frame_stride + 1,
                                      (s + 1) * frame_stride)],
                       Len(buffer), frame_stride)]
     ELSE [ok |-> TRUE, error |-> <<>>,
           input_pixels |->
             JoinSlabs([s \in 0..n |->
                          Preprocess(RawSlab(img, image_layer, s, files, undef),
                                     img.width, img.height, p)],
                       Len(buffer), frame_stride)]

(***************************************************************************)
(* Tile queue and device callbacks                                         *)
(***************************************************************************)

\* A create_task that does not clip the last row and column of tiles
CreateTilesUnclipped(img, ts, num_samples) ==
  [k \in 1..(divide_up(img.width, ts.x) * divide_up(img.height, ts.y)) |->
     [x |-> ((k - 1) % divide_up(img.width, ts.x)) * ts.x,
      y |-> ((k - 1) \div divide_up(img.width, ts.x)) * ts.y,
      w |-> ts.x, h |-> ts.y, num_samples |-> num_samples, offset |-> 0,
      stride |-> img.width, tile_index |-> k - 1, buffer |-> "input_pixels"]]

\* The tiles create_task pushes, in push order (ty outer, tx inner)
CreateTiles(img, ts, num_samples) ==
  LET tiles_x == divide_up(img.width, ts.x)
      tiles_y == divide_up(img.height, ts.y)
  IN [k \in 1..(tiles_x * tiles_y) |->
        LET tx == (k - 1) % tiles_x
            ty == (k - 1) \div tiles_x
        IN [x |-> tx * ts.x,
            y |-> ty * ts.y,
            w |-> Min(img.width - tx * ts.x, ts.x),
            h |-> Min(img.height - ty * ts.y, ts.y),
            num_samples |-> num_samples,
            offset |-> 0,
            stride |-> img.width,
            tile_index |-> ty * tiles_x + tx,
            buffer |-> "input_pixels"]]

\* A lock that excludes nobody
MutexIgnored(m) == TRUE

\* thread_scoped_lock: a mutex can be taken when no thread owns it
MutexFree(m) == m = 0

\* Neighbor slots that are not clipped to the image
NeighborTileUnclipped(center, i, img, ts) ==
  [NoTile EXCEPT
     !.x = center.x + ((i % 3) - 1) * ts.x,
     !.w = ts.x,
     !.y = center.y + ((i \div 3) - 1) * ts.y,
     !.h = ts.y,
     !.buffer = center.buffer,
     !.offset = center.offset,
     !.stride = img.width]

\* Slots 0..8 of the RenderTile[10] as map_neighboring_tiles fills them
NeighborTile(center, i, img, ts) ==
  LET dx == (i % 3) - 1
      dy == (i \div 3) - 1
      nx == clamp(center.x + dx * ts.x, 0, img.width)
      ny == clamp(center.y + dy * ts.y, 0, img.height)
  IN [NoTile EXCEPT
        !.x = nx,
        !.w = clamp(center.x + (dx + 1) * ts.x, 0, img.width) - nx,
        !.y = ny,
        !.h = clamp(center.y + (dy + 1) * ts.y, 0, img.height) - ny,
        !.buffer = center.buffer,
        !.offset = center.offset,
        !.stride = img.width]

\* A seed read at the tile's position counted from the image origin, from the
\* Combined channels
SeedIndexOrigin(center, img, layer, k) ==
  img.num_channels * ((((k - 1) \div OUTPUT_NUM_CHANNELS) \div center.w) * img.width
                      + (((k - 1) \div OUTPUT_NUM_CHANNELS) % center.w))
  + layer.output_to_image_channel[((k - 1) % OUTPUT_NUM_CHANNELS) + 1]

\* The 0-based element of image.pixels that map_neighboring_tiles reads for
\* element k (1-based) of the output buffer: the noisy image of the current layer
SeedIndex(center, img, layer, k) ==
  LET i == (k - 1) % OUTPUT_NUM_CHANNELS
      x == ((k - 1) \div OUTPUT_NUM_CHANNELS) % center.w
      y == ((k - 1) \div OUTPUT_NUM_CHANNELS) \div center.w
  IN img.num_channels * ((center.y + y) * img.width + center.x + x)
     + layer.input_to_image_channel[INPUT_NOISY_IMAGE + i + 1]

\* A seed taken from the top left of the image whatever the tile
SeedOutputFromOrigin(center, img, layer) ==
  [k \in 1..(OUTPUT_NUM_CHANNELS * center.w * center.h) |->
     img.pixels[SeedIndex([center EXCEPT !.x = 0, !.y = 0], img, layer, k) + 1]]

\* The output buffer map_neighboring_tiles allocates: 3 floats per pixel of the
\* center tile, seeded with the noisy image of the current layer
SeedOutput(center, img, layer) ==
  [k \in 1..(OUTPUT_NUM_CHANNELS * center.w * center.h) |->
     img.pixels[SeedIndex(center, img, layer, k) + 1]]

\* The RenderTile[10] after map_neighboring_tiles (before the registration)
MapTiles(rtiles, img, ts) ==
  [i \in 0..9 |->
     IF i = 4 THEN rtiles[4]
     ELSE IF i = 9
     THEN [rtiles[4] EXCEPT !.buffer = "output_mem",
                            !.stride = rtiles[4].w,
                            !.offset = rtiles[4].offset
                                       - (rtiles[4].x + rtiles[4].y * rtiles[4].w)]
     ELSE NeighborTile(rtiles[4], i, img, ts)]

\* A copy that goes to the channels of the noisy image instead of Combined
WriteBackNoisy(pixels, out, result, img, layer) ==
  [k \in 1..Len(pixels) |->
     LET x == (((k - 1) \div img.num_channels) % img.width) - out.x
         y == (((k - 1) \div img.num_channels) \div img.width) - out.y
         hit == {i \in 0..(OUTPUT_NUM_CHANNELS - 1) :
                   layer.input_to_image_channel[INPUT_NOISY_IMAGE + i + 1]
                     = (k - 1) % img.num_channels}
     IN IF x >= 0 /\ x < out.w /\ y >= 0 /\ y < out.h /\ hit # {}
        THEN result[(y * out.w + x) * OUTPUT_NUM_CHANNELS
                    + (CHOOSE i \in hit : TRUE) + 1]
        ELSE pixels[k]]

\* A copy that also clears the Combined channels of the layer outside the tile
WriteBackClearsOthers(pixels, out, result, img, layer) ==
  [k \in 1..Len(pixels) |->
     LET p == (k - 1) \div img.num_channels
         c == (k - 1) % img.num_channels
         x == (p % img.width) - out.x
         y == (p \div img.width) - out.y
         hit == {i \in 0..(OUTPUT_NUM_CHANNELS - 1) :
                   layer.output_to_image_channel[i + 1] = c}
     IN IF hit = {} THEN pixels[k]
        ELSE IF x >= 0 /\ x < out.w /\ y >= 0 /\ y < out.h
        THEN result[(y * out.w + x) * OUTPUT_NUM_CHANNELS
                    + (CHOOSE i \in hit : \A j \in hit : j <= i) + 1]
        ELSE 0]

\* A copy that takes each row of the output buffer right to left
WriteBackMirrored(pixels, out, result, img, layer) ==
  [k \in 1..Len(pixels) |->
     LET p == (k - 1) \div img.num_channels
         c == (k - 1) % img.num_channels
         x == (p % img.width) - out.x
         y == (p \div img.width) - out.y
         hit == {i \in 0..(OUTPUT_NUM_CHANNELS - 1) :
                   layer.output_to_image_channel[i + 1] = c}
     IN IF x >= 0 /\ x < out.w /\ y >= 0 /\ y < out.h /\ hit # {}
        THEN result[(y * out.w + (out.w - 1 - x)) * OUTPUT_NUM_CHANNELS
                    + (CHOOSE i \in hit : \A j \in hit : j <= i) + 1]
        ELSE pixels[k]]

\* The pixel buffer after unmap_neighboring_tiles copied result into the rectangle
\* of tile out (slot 9)
WriteBack(pixels, out, result, img, layer) ==
  [k \in 1..Len(pixels) |->
     LET p == (k - 1) \div img.num_channels
         c == (k - 1) % img.num_channels
         x == (p % img.width) - out.x
         y == (p \div img.width) - out.y
         hit == {i \in 0..(OUTPUT_NUM_CHANNELS - 1) :
                   layer.output_to_image_channel[i + 1] = c}
     IN IF x >= 0 /\ x < out.w /\ y >= 0 /\ y < out.h /\ hit # {}
        THEN result[(y * out.w + x) * OUTPUT_NUM_CHANNELS
                    + (CHOOSE i \in hit : \A j \in hit : j <= i) + 1]
        ELSE pixels[k]]

\* What the device kernel leaves in the output buffer of a tile when it filters it:
\* a function of the tile descriptor and the input buffer alone
KernelResult(out, buffer, img) ==
  [k \in 1..(OUTPUT_NUM_CHANNELS * out.w * out.h) |->
     LET i == (k - 1) % OUTPUT_NUM_CHANNELS
         x == ((k - 1) \div OUTPUT_NUM_CHANNELS) % out.w
         y == ((k - 1) \div OUTPUT_NUM_CHANNELS) \div out.w
     IN 0 - buffer[INPUT_NUM_CHANNELS * ((out.y + y) * img.width + out.x + x)
                   + INPUT_NOISY_IMAGE + i + 1]]

(***************************************************************************)
(* Frame driver and task stages                                            *)
(***************************************************************************)

\* A neighbor list that does not leave out the center frame
NeighborFramesWithCenter(f, radius, n) ==
  SelectSeq([k \in 1..(2 * radius + 1) |-> f - radius + k - 1],
            LAMBDA g : g >= 0 /\ g < n)

\* The neighbor frame numbers Denoiser::run collects for a frame
NeighborFrames(f, radius, n) ==
  SelectSeq([k \in 1..(2 * radius + 1) |-> f - radius + k - 1],
            LAMBDA g : g >= 0 /\ g < n /\ g # f)

\* The assert(output_pixels.empty()) of create_task and free
AssertEmpty(where) ==
  IF DOMAIN output_pixels = {} THEN assert_failed ELSE assert_failed \cup {where}

\* A run that records the error of a failed task and goes on to the next frame
RunOn(err, stage) ==
  /\ error' = err
  /\ run_result' = run_result
  /\ pc' = "free"
  /\ task' = [task EXCEPT !.error = err]
  /\ assert_failed' = AssertEmpty("free")
  /\ events' = Append(events, <<stage, task.frame, FALSE>>)

\* Denoiser::run returning false with the task's error; the task is destroyed
\* (~DenoiseTask calls free)
RunFail(err, stage) ==
  /\ error' = err
  /\ run_result' = "false"
  /\ pc' = "done"
  /\ task' = [task EXCEPT !.error = err]
  /\ assert_failed' = AssertEmpty("free")
  /\ events' = Append(events, <<stage, task.frame, FALSE>>)

\* The files whose read_image fails when the input buffer is loaded: those that
\* cannot be read, and one more where a read can fail at any time
UnreadableChoices ==
  LET base == {path \in DOMAIN fs : fs[path].regular /\ ~fs[path].readable}
  IN {base} \cup (IF "read_neighbor" \in io_faults
                  THEN {base \cup {path} : path \in DOMAIN fs}
                  ELSE {})

\* Denoiser::run up to its loop: num_frames = output.size()
DenoiserRun ==
  /\ pc = "run"
  /\ num_frames' = Len(output)
  /\ frame' = 0
  /\ pc' = "frame"
  /\ UNCHANGED <<fs, cfg_vars, error, run_result, task_vars, tile_vars, save, hist_vars>>

\* A frame loop that makes a task for every frame, whatever its output path
RunFrameNoSkip ==
  /\ pc = "frame"
  /\ IF frame >= num_frames
     THEN /\ run_result' = "true"
          /\ pc' = "done"
          /\ UNCHANGED <<frame, task, image, events>>
     ELSE /\ task' = [frame |-> frame,
                      neighbor_frames |->
                        NeighborFrames(frame, params.neighbor_frames, num_frames),
                      current_layer |-> 0, error |-> <<>>, num_tiles |-> 0]
          /\ image' = [EmptyImage EXCEPT !.samples = samples_override]
          /\ pc' = "load"
          /\ UNCHANGED <<frame, run_result, events>>
  /\ UNCHANGED <<fs, cfg_vars, num_frames, error, input_pixels, tile_vars, save,
                 handed, acquire_log, assert_failed>>

\* One pass through the head of the frame loop of Denoiser::run: return true after
\* the last frame, skip a frame with an empty output path, or construct the
\* DenoiseTask of the frame
RunFrame ==
  /\ pc = "frame"
  /\ IF frame >= num_frames
     THEN /\ run_result' = "true"
          /\ pc' = "done"
          /\ UNCHANGED <<frame, task, image, events>>
     ELSE IF output[frame + 1] = <<>>
     THEN /\ frame' = frame + 1
          /\ events' = Append(events, <<"skip", frame, TRUE>>)
          /\ UNCHANGED <<pc, run_result, task, image>>
     ELSE /\ task' = [frame |-> frame,
                      neighbor_frames |->
                        NeighborFrames(frame, params.neighbor_frames, num_frames),
                      current_layer |-> 0, error |-> <<>>, num_tiles |-> 0]
          /\ image' = [EmptyImage EXCEPT !.samples = samples_override]
          /\ pc' = "load"
          /\ UNCHANGED <<frame, run_result, events>>
  /\ UNCHANGED <<fs, cfg_vars, num_frames, error, input_pixels, tile_vars, save,
                 handed, acquire_log, assert_failed>>

\* The device input buffer DenoiseTask::load allocates, zeroed
ZeroBuffer(img) ==
  [k \in 1..(img.width * INPUT_NUM_CHANNELS * img.height
             * (Len(img.in_neighbors) + 1)) |-> 0]

\* The end of DenoiseTask::load: l is what load_input_pixels(0) returned
LoadPixels(img, l) ==
  [ok |-> l.ok, error |-> l.error, image |-> img, input_pixels |-> l.input_pixels]

\* DenoiseTask::load after image.load succeeded: l is what load_neighbors returned
LoadNeighbors(center_filepath, unreadable, undef, l) ==
  IF ~l.ok
  THEN [ok |-> FALSE, error |-> l.error, image |-> l.image, input_pixels |-> <<>>]
  ELSE IF Len(l.image.layers) = 0
  THEN [ok |-> FALSE, error |-> <<"No image layers found to denoise in ", center_filepath>>,
        image |-> l.image, input_pixels |-> <<>>]
  ELSE LoadPixels(l.image,
                  load_input_pixels(l.image, ZeroBuffer(l.image), 0, params, fs,
                                    unreadable, undef))

\* DenoiseTask::load after image.load, l being what image.load returned
LoadImage(tsk, center_filepath, unreadable, undef, l) ==
  IF ~l.ok
  THEN [ok |-> FALSE, error |-> l.error, image |-> l.image, input_pixels |-> <<>>]
  ELSE LoadNeighbors(center_filepath, unreadable, undef,
                     load_neighbors(l.image, input, tsk.neighbor_frames, fs))

\* DenoiseTask::load
DenoiseTask_load(img, tsk, unreadable, undef) ==
  LoadImage(tsk, input[tsk.frame + 1], unreadable, undef,
            DenoiseImage_load(img, input[tsk.frame + 1], fs[input[tsk.frame + 1]]))

\* Denoiser::run after task.load returned l: it goes on to exec, or returns false
\* with the task's error
TaskLoaded(l) ==
  IF ~l.ok
  THEN /\ image' = DenoiseImage_free(l.image)
       /\ input_pixels' = <<>>
       /\ RunFail(l.error, "load")
  ELSE /\ image' = l.image
       /\ input_pixels' = l.input_pixels
       /\ task' = [task EXCEPT !.current_layer = 0]
       /\ pc' = "exec"
       /\ events' = Append(events, <<"load", task.frame, TRUE>>)
       /\ UNCHANGED <<error, run_result, assert_failed>>

\* DenoiseTask::load, and Denoiser::run returning false when it fails
TaskLoad ==
  /\ pc = "load"
  /\ \E unreadable \in UnreadableChoices, undef \in UndefinedReads :
       TaskLoaded(DenoiseTask_load(image, task, unreadable, undef))
  /\ UNCHANGED <<fs, cfg_vars, frame, num_frames, tile_vars, save, handed, acquire_log>>

\* DenoiseTask::create_task: the tile queue and the registry after it
create_task_tiles == CreateTiles(image, tile_size, image.layers[task.current_layer + 1].samples)

\* Frame offsets that are the frame numbers themselves
create_task_absolute_frames == task.neighbor_frames

\* DenoiseTask::create_task: task.denoising_frames, the offset of each neighbor
\* frame from the frame of the task
create_task_denoising_frames ==
  [i \in 1..Len(task.neighbor_frames) |-> task.neighbor_frames[i] - task.frame]

\* DenoiseTask::create_task: task.frame_stride
create_task_frame_stride == image.width * image.height * INPUT_NUM_CHANNELS

\* DenoiseTask::exec after load_input_pixels returned l for the current layer:
\* return false, or create the device task and add it to the device, which starts
\* its worker threads
ExecLayer(l) ==
  IF ~l.ok
  THEN /\ image' = DenoiseImage_free(image)
       /\ input_pixels' = <<>>
       /\ RunFail(l.error, "exec")
       /\ UNCHANGED <<tiles, output_pixels, threads>>
  ELSE /\ input_pixels' = l.input_pixels
       /\ tiles' = create_task_tiles
       /\ assert_failed' = AssertEmpty("create_task")
       /\ output_pixels' = <<>>
       /\ task' = [task EXCEPT !.num_tiles = Len(create_task_tiles)]
       /\ threads' = [t \in Threads |-> [IdleThread EXCEPT !.pc = "acquire"]]
       /\ pc' = "task_wait"
       /\ UNCHANGED <<error, run_result, image, events>>

\* The head of the layer loop of DenoiseTask::exec: return true after the last
\* layer; otherwise reload the input buffer (layers after the first) and go on
TaskExec ==
  /\ pc = "exec"
  /\ IF task.current_layer >= Len(image.layers)
     THEN /\ pc' = "save"
          /\ events' = Append(events, <<"exec", task.frame, TRUE>>)
          /\ UNCHANGED <<error, run_result, task, image, input_pixels, tiles,
                         output_pixels, threads, assert_failed>>
     ELSE \E unreadable \in UnreadableChoices, undef \in UndefinedReads :
            ExecLayer(IF task.current_layer > 0
                      THEN load_input_pixels(image, input_pixels, task.current_layer,
                                             params, fs, unreadable, undef)
                      ELSE [ok |-> TRUE, error |-> <<>>, input_pixels |-> input_pixels])
  /\ UNCHANGED <<fs, cfg_vars, frame, num_frames, tiles_mutex, output_mutex, save,
                 handed, acquire_log>>

\* A task_wait that returns at once, whatever the worker threads are doing
TaskWaitReturnsAtOnce ==
  /\ pc = "task_wait"
  /\ task' = [task EXCEPT !.current_layer = @ + 1]
  /\ pc' = "exec"
  /\ UNCHANGED <<fs, cfg_vars, frame, num_frames, error, run_result, image, input_pixels,
                 tiles, output_pixels, tiles_mutex, output_mutex, save, hist_vars, threads>>

\* Device::task_wait returning: every worker thread of the device task has ended;
\* the layer loop of exec moves to the next layer
TaskWait ==
  /\ pc = "task_wait"
  /\ \A t \in Threads : threads[t].pc = "done"
  /\ threads' = [t \in Threads |-> IdleThread]
  /\ task' = [task EXCEPT !.current_layer = @ + 1]
  /\ pc' = "exec"
  /\ UNCHANGED <<fs, cfg_vars, frame, num_frames, error, run_result, image, input_pixels,
                 tiles, output_pixels, tiles_mutex, output_mutex, save, hist_vars>>

(***************************************************************************)
(* Device worker threads. Each runs the callback protocol of the device:   *)
(* while acquire_tile returns a tile: map_neighboring_tiles, the kernel,   *)
(* unmap_neighboring_tiles, release_tile.                                  *)
(***************************************************************************)

SetThread(t, new_pc) == [threads EXCEPT ![t].pc = new_pc]

\* acquire_tile: thread_scoped_lock tile_lock(tiles_mutex)
AcquireLock(t) ==
  /\ pc = "task_wait"
  /\ threads[t].pc = "acquire"
  /\ MutexFree(tiles_mutex)
  /\ tiles_mutex' = t
  /\ threads' = SetThread(t, "acquire_front")
  /\ UNCHANGED <<fs, cfg_vars, run_vars, task_vars, tiles, output_pixels, output_mutex,
                 save, hist_vars>>

\* An acquire_tile that keeps the lock when it returns false on an empty queue
AcquireFrontKeepsLock(t) ==
  /\ pc = "task_wait"
  /\ threads[t].pc = "acquire_front"
  /\ IF Len(tiles) = 0
     THEN /\ threads' = SetThread(t, "done")
          /\ acquire_log' = Append(acquire_log, [queued |-> 0, ret |-> FALSE])
          /\ UNCHANGED tiles_mutex
     ELSE /\ threads' = [threads EXCEPT ![t].pc = "acquire_pop",
                                        ![t].tiles = [@ EXCEPT ![4] = Head(tiles)]]
          /\ UNCHANGED <<tiles_mutex, acquire_log>>
  /\ UNCHANGED <<fs, cfg_vars, run_vars, task_vars, tiles, output_pixels, output_mutex,
                 save, handed, assert_failed, events>>

\* acquire_tile: return false on an empty queue (the lock is released), otherwise
\* tile = tiles.front()
AcquireFront(t) ==
  /\ pc = "task_wait"
  /\ threads[t].pc = "acquire_front"
  /\ IF Len(tiles) = 0
     THEN /\ threads' = SetThread(t, "done")
          /\ tiles_mutex' = 0
          /\ acquire_log' = Append(acquire_log, [queued |-> 0, ret |-> FALSE])
     ELSE /\ threads' = [threads EXCEPT ![t].pc = "acquire_pop",
                                        ![t].tiles = [@ EXCEPT ![4] = Head(tiles)]]
          /\ UNCHANGED <<tiles_mutex, acquire_log>>
  /\ UNCHANGED <<fs, cfg_vars, run_vars, task_vars, tiles, output_pixels, output_mutex,
                 save, handed, assert_failed, events>>

\* acquire_tile: tiles.pop_front(), map_tile, print_progress, return true (the lock
\* is released)
AcquirePop(t) ==
  /\ pc = "task_wait"
  /\ threads[t].pc = "acquire_pop"
  /\ tiles' = IF Len(tiles) = 0 THEN tiles ELSE Tail(tiles)
  /\ tiles_mutex' = 0
  /\ handed' = Append(handed, [tile |-> threads[t].tiles[4], frame |-> task.frame,
                               layer |-> task.current_layer])
  /\ acquire_log' = Append(acquire_log, [queued |-> Len(tiles), ret |-> TRUE])
  /\ threads' = SetThread(t, "map")
  /\ UNCHANGED <<fs, cfg_vars, run_vars, task_vars, output_pixels, output_mutex,
                 save, assert_failed, events>>

\* map_neighboring_tiles up to its lock: the tile geometry and the seeded output
\* buffer
MapNeighboringTiles(t) ==
  /\ pc = "task_wait"
  /\ threads[t].pc = "map"
  /\ threads' = [threads EXCEPT
                   ![t].pc = "map_lock",
                   ![t].tiles = MapTiles(@, image, tile_size),
                   ![t].output_mem = SeedOutput(threads[t].tiles[4], image,
                                                image.layers[task.current_layer + 1])]
  /\ UNCHANGED <<fs, cfg_vars, run_vars, task_vars, tiles, output_pixels, tiles_mutex,
                 output_mutex, save, hist_vars>>

\* map_neighboring_tiles: thread_scoped_lock output_lock(output_mutex)
MapLock(t) ==
  /\ pc = "task_wait"
  /\ threads[t].pc = "map_lock"
  /\ MutexFree(output_mutex)
  /\ output_mutex' = t
  /\ threads' = SetThread(t, "map_register")
  /\ UNCHANGED <<fs, cfg_vars, run_vars, task_vars, tiles, output_pixels, tiles_mutex,
                 save, hist_vars>>

\* The registry after map_neighboring_tiles registered output buffer mem for a tile
RegisterOutput(registry, tile_index, mem) ==
  (tile_index :> mem) @@ registry

\* map_neighboring_tiles: assert single occupancy, register the output buffer,
\* return (the lock is released)
MapRegister(t) ==
  /\ pc = "task_wait"
  /\ threads[t].pc = "map_register"
  /\ assert_failed' = IF threads[t].tiles[4].tile_index \in DOMAIN output_pixels
                      THEN assert_failed \cup {"map_neighboring_tiles"}
                      ELSE assert_failed
  /\ output_pixels' = RegisterOutput(output_pixels, threads[t].tiles[9].tile_index,
                                     threads[t].output_mem)
  /\ output_mutex' = 0
  /\ threads' = [threads EXCEPT ![t].pc = "kernel", ![t].output_mem = <<>>]
  /\ UNCHANGED <<fs, cfg_vars, run_vars, task_vars, tiles, tiles_mutex, save, handed,
                 acquire_log, events>>

\* The device kernel on the mapped tile: it filters the tile into the output buffer
\* or skips it, leaving the seed
Kernel(t) ==
  /\ pc = "task_wait"
  /\ threads[t].pc = "kernel"
  /\ \E filter \in kernel_modes :
       LET idx == threads[t].tiles[9].tile_index IN
       output_pixels' =
         IF filter /\ idx \in DOMAIN output_pixels
         THEN [output_pixels EXCEPT ![idx] =
                 KernelResult(threads[t].tiles[9], input_pixels, image)]
         ELSE output_pixels
  /\ threads' = SetThread(t, "unmap_lock")
  /\ UNCHANGED <<fs, cfg_vars, run_vars, task_vars, tiles, tiles_mutex, output_mutex,
                 save, hist_vars>>

\* unmap_neighboring_tiles: thread_scoped_lock output_lock(output_mutex)
UnmapLock(t) ==
  /\ pc = "task_wait"
  /\ threads[t].pc = "unmap_lock"
  /\ MutexFree(output_mutex)
  /\ output_mutex' = t
  /\ threads' = SetThread(t, "unmap_take")
  /\ UNCHANGED <<fs, cfg_vars, run_vars, task_vars, tiles, output_pixels, tiles_mutex,
                 save, hist_vars>>

\* An unmap_neighboring_tiles that leaves the entry in the registry
EraseNothing(registry, tile_index) == registry

\* The registry after unmap_neighboring_tiles erased the entry of a tile
EraseOutput(registry, tile_index) ==
  [k \in DOMAIN registry \ {tile_index} |-> registry[k]]

\* unmap_neighboring_tiles: assert the entry exists, take it out of the registry,
\* output_lock.unlock()
UnmapTake(t) ==
  /\ pc = "task_wait"
  /\ threads[t].pc = "unmap_take"
  /\ LET idx == threads[t].tiles[9].tile_index IN
       /\ assert_failed' = IF idx \in DOMAIN output_pixels THEN assert_failed
                           ELSE assert_failed \cup {"unmap_neighboring_tiles"}
       /\ threads' = [threads EXCEPT
                        ![t].pc = "unmap_copy",
                        ![t].output_mem = IF idx \in DOMAIN output_pixels
                                          THEN output_pixels[idx] ELSE <<>>]
       /\ output_pixels' = EraseOutput(output_pixels, threads[t].tiles[4].tile_index)
  /\ output_mutex' = 0
  /\ UNCHANGED <<fs, cfg_vars, run_vars, task_vars, tiles, tiles_mutex, save, handed,
                 acquire_log, events>>

\* unmap_neighboring_tiles after the lock: copy the output buffer into the image
\* pixels, free the buffer; then release_tile (a no-op) and back to acquire_tile
UnmapCopy(t) ==
  /\ pc = "task_wait"
  /\ threads[t].pc = "unmap_copy"
  /\ image' = [image EXCEPT !.pixels =
                 IF threads[t].output_mem = <<>> THEN @
                 ELSE WriteBack(@, threads[t].tiles[9], threads[t].output_mem, image,
                                image.layers[task.current_layer + 1])]
  /\ threads' = [threads EXCEPT ![t].pc = "acquire", ![t].output_mem = <<>>]
  /\ UNCHANGED <<fs, cfg_vars, run_vars, task, input_pixels, tiles, output_pixels,
                 tiles_mutex, output_mutex, save, hist_vars>>

(***************************************************************************)
(* Writing the output: DenoiseImage::save_output, DenoiseTask::save        *)
(***************************************************************************)

DigitChar(d) ==
  CASE d = 0 -> "0" [] d = 1 -> "1" [] d = 2 -> "2" [] d = 3 -> "3" [] d = 4 -> "4"
    [] d = 5 -> "5" [] d = 6 -> "6" [] d = 7 -> "7" [] d = 8 -> "8" [] d = 9 -> "9"

\* string_printf("%d", n)
RECURSIVE FormatNat(_)
FormatNat(n) == IF n < 10 THEN <<DigitChar(n)>> ELSE FormatNat(n \div 10) \o <<DigitChar(n % 10)>>

string_printf_d(n) == IF n < 0 THEN <<"-">> \o FormatNat(0 - n) ELSE FormatNat(n)

\* The spec save_output writes: the input spec, with a cycles.<layer>.samples
\* attribute added for every layer that has none
OutSpec(img) ==
  LET missing == {k \in 1..Len(img.layers) :
                    SamplesAttr(img.layers[k].name) \notin DOMAIN img.in_spec.attributes}
      added == {SamplesAttr(img.layers[k].name) : k \in missing}
  IN [img.in_spec EXCEPT !.attributes =
        [n \in DOMAIN img.in_spec.attributes \cup added |->
           IF n \in DOMAIN img.in_spec.attributes THEN img.in_spec.attributes[n]
           ELSE LET k == CHOOSE k \in missing : SamplesAttr(img.layers[k].name) = n
                IN string_printf_d(img.layers[k].samples)]]

\* A file as the writer leaves it: complete once written and closed
WrittenFile(out_spec, pixels, complete) ==
  [id |-> -1, regular |-> TRUE, openable |-> complete, readable |-> complete,
   spec |-> out_spec, pixels |-> pixels]

\* Whether a container operation fails this time
FaultChoice(op) == IF op \in io_faults THEN BOOLEAN ELSE {FALSE}

\* DenoiseTask::save returning false (after its free()), and Denoiser::run
\* returning false with the task's error
SaveFail(err) ==
  /\ image' = DenoiseImage_free(image)
  /\ input_pixels' = <<>>
  /\ error' = err
  /\ run_result' = "false"
  /\ pc' = "done"
  /\ task' = [task EXCEPT !.error = err]
  /\ assert_failed' = AssertEmpty("free")

\* save_output up to ImageOutput::create: the output spec, close_input, the
\* temporary path, the writer
SaveCreate ==
  /\ pc = "save"
  /\ \E fail \in FaultChoice("create") :
       LET tmp_filepath == TmpPath(output[task.frame + 1]) IN
       IF fail
       THEN /\ save' = [NoSave EXCEPT !.tmp_filepath = tmp_filepath, !.ok = FALSE]
            /\ events' = events \o <<<<"close_input", task.frame, TRUE>>,
                                     <<"create", task.frame, FALSE>>,
                                     <<"save", task.frame, FALSE>>>>
            /\ SaveFail(<<"Failed to open temporary file ", tmp_filepath, " for writing">>)
       ELSE /\ save' = [tmp_filepath |-> tmp_filepath, out_spec |-> OutSpec(image),
                        ok |-> TRUE, out |-> "created"]
            /\ image' = close_input(image)
            /\ events' = events \o <<<<"close_input", task.frame, TRUE>>,
                                     <<"create", task.frame, TRUE>>>>
            /\ pc' = "save_open"
            /\ UNCHANGED <<error, run_result, task, input_pixels, assert_failed>>
  /\ UNCHANGED <<fs, cfg_vars, frame, num_frames, tile_vars, handed, acquire_log>>

\* save_output: out->open(tmp_filepath, out_spec); a failed open may or may not
\* have created the file
SaveOpen ==
  /\ pc = "save_open"
  /\ \E fail \in FaultChoice("open"), created \in BOOLEAN :
       IF fail
       THEN /\ fs' = IF created
                     THEN [fs EXCEPT ![save.tmp_filepath] =
                             WrittenFile(save.out_spec, <<>>, FALSE)]
                     ELSE fs
            /\ save' = [save EXCEPT !.ok = FALSE, !.out = "null"]
            /\ events' = events \o <<<<"open", task.frame, FALSE>>,
                                     <<"save", task.frame, FALSE>>>>
            /\ SaveFail(<<"Failed to open file ", save.tmp_filepath, " for writing">>)
       ELSE /\ created
            /\ fs' = [fs EXCEPT ![save.tmp_filepath] =
                        WrittenFile(save.out_spec, <<>>, FALSE)]
            /\ save' = [save EXCEPT !.out = "open"]
            /\ events' = Append(events, <<"open", task.frame, TRUE>>)
            /\ pc' = "save_write"
            /\ UNCHANGED <<error, run_result, task, image, input_pixels, assert_failed>>
  /\ UNCHANGED <<cfg_vars, frame, num_frames, tile_vars, handed, acquire_log>>

\* save_output: out->write_image(TypeDesc::FLOAT, pixels.data())
SaveWrite ==
  /\ pc = "save_write"
  /\ \E fail \in FaultChoice("write") :
       /\ fs' = IF fail THEN fs
                ELSE [fs EXCEPT ![save.tmp_filepath] =
                        WrittenFile(save.out_spec, image.pixels, FALSE)]
       /\ save' = [save EXCEPT !.ok = ~fail]
       /\ task' = IF fail
                  THEN [task EXCEPT !.error =
                          <<"Failed to write to file ", save.tmp_filepath>>]
                  ELSE task
       /\ events' = Append(events, <<"write", task.frame, ~fail>>)
  /\ pc' = "save_close"
  /\ UNCHANGED <<cfg_vars, frame, num_frames, error, run_result, image, input_pixels,
                 tile_vars, handed, acquire_log, assert_failed>>

\* save_output: out->close(), out.reset()
SaveClose ==
  /\ pc = "save_close"
  /\ \E fail \in FaultChoice("close") :
       /\ fs' = IF fail \/ ~save.ok THEN fs
                ELSE [fs EXCEPT ![save.tmp_filepath] =
                        WrittenFile(save.out_spec, fs[save.tmp_filepath].pixels, TRUE)]
       /\ save' = [save EXCEPT !.ok = IF fail THEN FALSE ELSE @, !.out = "null"]
       /\ task' = IF fail
                  THEN [task EXCEPT !.error =
                          <<"Failed to save to file ", save.tmp_filepath>>]
                  ELSE task
       /\ events' = Append(events, <<"close", task.frame, ~fail>>)
  /\ pc' = "save_rename"
  /\ UNCHANGED <<cfg_vars, frame, num_frames, error, run_result, image, input_pixels,
                 tile_vars, handed, acquire_log, assert_failed>>

\* A save_output that renames whatever the writer left
RenameAlways(ok) == TRUE

\* Whether save_output calls Filesystem::rename
RenameAttempted(ok) == ok

\* save_output from the rename on: rename the temporary file over the target when
\* all went well, remove it when something failed; then DenoiseTask::save frees the
\* task and Denoiser::run returns false on a failure
SaveRename ==
  /\ pc = "save_rename"
  /\ \E fail \in FaultChoice("rename") :
       LET out_filepath == output[task.frame + 1]
           attempt == RenameAttempted(save.ok)
           ok == save.ok /\ ~(attempt /\ fail)
           renamed == IF attempt /\ ~fail
                      THEN [fs EXCEPT ![out_filepath] = fs[save.tmp_filepath],
                                      ![save.tmp_filepath] = NoFile]
                      ELSE fs
           trace == (IF attempt THEN <<<<"rename", task.frame, ~fail>>>> ELSE <<>>)
                    \o (IF ~ok THEN <<<<"remove", task.frame, TRUE>>>> ELSE <<>>)
       IN /\ fs' = IF ~ok THEN [renamed EXCEPT ![save.tmp_filepath] = NoFile] ELSE renamed
          /\ save' = [save EXCEPT !.ok = ok]
          /\ events' = events \o trace \o <<<<"save", task.frame, ok>>>>
          /\ IF ok
             THEN /\ image' = DenoiseImage_free(image)
                  /\ input_pixels' = <<>>
                  /\ assert_failed' = AssertEmpty("free")
                  /\ pc' = "free"
                  /\ UNCHANGED <<error, run_result, task>>
             ELSE SaveFail(IF attempt /\ fail
                           THEN <<"Failed to move denoised image to ", out_filepath>>
                           ELSE task.error)
  /\ UNCHANGED <<cfg_vars, frame, num_frames, tile_vars, handed, acquire_log>>

\* End of the loop body of Denoiser::run: task.free(), the task is destroyed, and
\* the loop moves to the next frame
TaskFree ==
  /\ pc = "free"
  /\ assert_failed' = AssertEmpty("free")
  /\ task' = NoTask
  /\ image' = EmptyImage
  /\ save' = NoSave
  /\ frame' = frame + 1
  /\ pc' = "frame"
  /\ UNCHANGED <<fs, cfg_vars, num_frames, error, run_result, input_pixels, tile_vars,
                 handed, acquire_log, events>>

(***************************************************************************)
(* Specifications                                                          *)
(***************************************************************************)

Worker ==
  \E t \in Threads :
    \/ AcquireLock(t) \/ AcquireFront(t) \/ AcquirePop(t)
    \/ MapNeighboringTiles(t) \/ MapLock(t) \/ MapRegister(t)
    \/ Kernel(t)
    \/ UnmapLock(t) \/ UnmapTake(t) \/ UnmapCopy(t)

Next ==
  \/ DenoiserRun \/ RunFrame \/ TaskLoad \/ TaskExec \/ TaskWait \/ Worker
  \/ SaveCreate \/ SaveOpen \/ SaveWrite \/ SaveClose \/ SaveRename \/ TaskFree

\* A file with the complete render layer "A", and a complete layer "B" as well
\* when two_layers, each with its sample count
PlainFile(id, w, h, two_layers) ==
  MakeFile(id, w, h,
           FileChannelNames("full", IF two_layers THEN "full" ELSE "absent",
                            FALSE, FALSE, FALSE),
           FileAttributes(<<"4">>, IF two_layers THEN <<"1", "2">> ELSE <<>>, FALSE),
           FALSE, TRUE, TRUE, TRUE)

DefaultParams == [neighbor_frames |-> 0, radius |-> 0, clamp_input |-> FALSE]

\* One frame of every size up to MaxWidth x MaxHeight, every tile size up to
\* MaxTileSize x MaxTileSize, one worker thread, no failing container operation
InitTiling ==
  \E w \in 1..MaxWidth, h \in 1..MaxHeight, tx \in 1..MaxTileSize, ty \in 1..MaxTileSize :
    InitState(<<PlainFile(0, w, h, FALSE)>>, <<OutputPath(0)>>, {}, 0,
              [x |-> tx, y |-> ty], DefaultParams, 1, {}, {TRUE})

SpecTiling == InitTiling /\ [][Next]_vars

\* One frame of one row of up to MaxWidth pixels with one or two layers, tiles up
\* to MaxTileSize wide, up to MaxThreads worker threads, no failing container
\* operation
InitTiles ==
  \E w \in 1..MaxWidth, tx \in 1..MaxTileSize, nt \in 1..MaxThreads,
     two_layers \in BOOLEAN :
    InitState(<<PlainFile(0, w, 1, two_layers)>>, <<OutputPath(0)>>, {}, 0,
              [x |-> tx, y |-> 1], DefaultParams, nt, {}, {TRUE})

SpecTiles == InitTiles /\ [][Next]_vars

(***************************************************************************)
(* Tiling and the tile queue                                               *)
(***************************************************************************)

\* The tiles of the device task in progress: those handed out so far, then those
\* still queued
TaskTiles ==
  [k \in 1..Len(SelectSeq(handed, LAMBDA e : e.frame = task.frame
                                            /\ e.layer = task.current_layer)) |->
     SelectSeq(handed, LAMBDA e : e.frame = task.frame
                                  /\ e.layer = task.current_layer)[k].tile]
  \o tiles

\* ceil(x / y) for x, y >= 1, by its defining property
Ceil(x, y) == CHOOSE n \in 1..x : n * y >= x /\ (n - 1) * y < x

\* Whether pixel (px, py) lies in tile t
InTile(t, px, py) == px >= t.x /\ px < t.x + t.w /\ py >= t.y /\ py < t.y + t.h

\* C1: while a device task runs, the tiles create_task made (handed out or still
\* queued) cover the image exhaustively and disjointly: every pixel lies in exactly
\* one tile, every tile has w >= 1, h >= 1 and lies inside the image, there are
\* ceil(W/tw) * ceil(H/th) tiles, each with tile_index equal to its raster-order
\* position, and an image no larger than one tile gives one tile of size W x H.
C1_TilesCoverImage ==
  pc = "task_wait" =>
    /\ Len(TaskTiles) = Ceil(image.width, tile_size.x) * Ceil(image.height, tile_size.y)
    /\ \A k \in 1..Len(TaskTiles) :
         /\ TaskTiles[k].w >= 1 /\ TaskTiles[k].h >= 1
         /\ TaskTiles[k].x >= 0 /\ TaskTiles[k].y >= 0
         /\ TaskTiles[k].x + TaskTiles[k].w <= image.width
         /\ TaskTiles[k].y + TaskTiles[k].h <= image.height
         /\ TaskTiles[k].tile_index = k - 1
         /\ TaskTiles[k].x = ((k - 1) % Ceil(image.width, tile_size.x)) * tile_size.x
         /\ TaskTiles[k].y = ((k - 1) \div Ceil(image.width, tile_size.x)) * tile_size.y
    /\ \A px \in 0..(image.width - 1), py \in 0..(image.height - 1) :
         Cardinality({k \in 1..Len(TaskTiles) : InTile(TaskTiles[k], px, py)}) = 1
    /\ (image.width <= tile_size.x /\ image.height <= tile_size.y) =>
         /\ Len(TaskTiles) = 1
         /\ TaskTiles[1].w = image.width /\ TaskTiles[1].h = image.height

\* A device task was created for an image that the tile size divides in neither
\* direction: the last tile is clipped in width and in height
C1_Witness ==
  /\ pc = "task_wait"
  /\ image.width = 3 /\ image.height = 1 /\ tile_size = [x |-> 2, y |-> 2]
  /\ Len(tiles) = 2
  /\ tiles[2].w = 1 /\ tiles[2].h = 1

\* C2: under every interleaving of the worker threads of a device task, the tiles
\* leave the queue front to back, each exactly once (the tiles handed out followed
\* by the tiles queued are always the created tiles in raster order, and a tile a
\* thread is about to pop is the front of the queue), no tile is left when every
\* thread has ended, and acquire_tile returns false exactly when it found the queue
\* empty.
C2_HandoutExactlyOnce ==
  /\ pc = "task_wait" =>
       /\ Len(TaskTiles) = task.num_tiles
       /\ \A k \in 1..Len(TaskTiles) : TaskTiles[k].tile_index = k - 1
       /\ \A t \in Threads :
            threads[t].pc = "acquire_pop" =>
              Len(tiles) > 0 /\ threads[t].tiles[4] = Head(tiles)
       /\ (\A t \in Threads : threads[t].pc = "done") => tiles = <<>>
  /\ \A k \in 1..Len(acquire_log) : acquire_log[k].ret <=> acquire_log[k].queued > 0

\* Two worker threads emptied a queue of at least two tiles and both saw
\* acquire_tile return false
C2_Witness ==
  /\ pc = "task_wait"
  /\ nthreads = 2
  /\ \A t \in Threads : threads[t].pc = "done"
  /\ task.num_tiles >= 2
  /\ Len(TaskTiles) = task.num_tiles
  /\ Cardinality({k \in 1..Len(acquire_log) : ~acquire_log[k].ret}) = 2

\* The threads whose tile has an output buffer in the registry
Registered == {t \in Threads : threads[t].pc \in {"kernel", "unmap_lock", "unmap_take"}}

\* C3: when every worker thread follows the callback protocol, no assertion of
\* map_neighboring_tiles, unmap_neighboring_tiles, create_task or free fails: the
\* registry holds exactly one entry for each tile that is mapped and not yet
\* unmapped, two threads never hold the same tile, and the registry is empty
\* outside a running device task.
C3_RegistryAssertionsHold ==
  /\ assert_failed = {}
  /\ DOMAIN output_pixels = {threads[t].tiles[4].tile_index : t \in Registered}
  /\ \A t1, t2 \in Registered :
       threads[t1].tiles[4].tile_index = threads[t2].tiles[4].tile_index => t1 = t2
  /\ pc # "task_wait" => DOMAIN output_pixels = {}

\* A run of two worker threads over two layers of at least two tiles each has
\* ended: every assertion was passed, create_task twice and free included
C3_Witness ==
  /\ pc = "done" /\ run_result = "true"
  /\ nthreads = 2
  /\ Len(handed) >= 4
  /\ \E k \in 1..Len(handed) : handed[k].layer = 1
  /\ output_pixels = <<>>

(***************************************************************************)
(* Whole runs with failing container operations                            *)
(***************************************************************************)

\* The container operations that can fail
AllFaults == {"create", "open", "write", "close", "rename", "read_neighbor"}

\* Up to MaxFrames frames of one pixel, any of them skipped (empty output path), any
\* target present beforehand, at most one input file missing, with or without
\* neighbor frames and a second layer; every container operation may fail
InitRun ==
  \E n \in 1..MaxFrames, nf \in 0..1, two_layers \in BOOLEAN :
    \E skips \in SUBSET (0..(n - 1)), olds \in SUBSET (0..(n - 1)), bad \in -1..(n - 1) :
      InitState([k \in 1..n |->
                   IF k - 1 = bad
                   THEN [PlainFile(k - 1, 1, 1, two_layers) EXCEPT !.regular = FALSE]
                   ELSE PlainFile(k - 1, 1, 1, two_layers)],
                [k \in 1..n |-> IF k - 1 \in skips THEN <<>> ELSE OutputPath(k - 1)],
                olds, 0, [x |-> 1, y |-> 1],
                [DefaultParams EXCEPT !.neighbor_frames = nf], 1, AllFaults, {TRUE})

SpecRun == InitRun /\ [][Next]_vars

\* A stage of a task reported as failed
StageFailed(e) == e[1] \in {"load", "exec", "save"} /\ ~e[3]

\* C5: when load, exec or save of the task of frame N fails, nothing is done after
\* it: Denoiser::run has returned false with error equal to the error of that task,
\* and no stage of a later frame is ever reported; the stages come in frame order;
\* run returns false only after such a failure, and true only when every frame
\* with a non-empty output path completed load, exec and save.
C5_RunStopsAtFirstFailure ==
  /\ \A i \in 1..Len(events) :
       StageFailed(events[i]) =>
         /\ i = Len(events)
         /\ pc = "done"
         /\ run_result = "false"
         /\ task.frame = events[i][2]
         /\ error = task.error
         /\ error # <<>>
  /\ \A i, j \in 1..Len(events) : i < j => events[i][2] <= events[j][2]
  /\ pc = "done" =>
       IF run_result = "true"
       THEN \A f \in 0..(Len(output) - 1) :
              output[f + 1] # <<>> =>
                \A stage \in {"load", "exec", "save"} :
                  \E i \in 1..Len(events) : events[i] = <<stage, f, TRUE>>
       ELSE Len(events) > 0 /\ StageFailed(events[Len(events)])

\* Frame 0 was denoised and saved, then the save of frame 1 failed and the run
\* returned false with the error of that task
C5_Witness ==
  /\ pc = "done"
  /\ run_result = "false"
  /\ \E i \in 1..Len(events) : events[i] = <<"save", 0, TRUE>>
  /\ events[Len(events)] = <<"save", 1, FALSE>>
  /\ error = task.error

\* Whether save_output has returned for the frame of the last stage reported
SaveReturned == Len(events) > 0 /\ events[Len(events)][1] = "save"

\* C6: once save_output has returned, with success or with a failure at any step,
\* no temporary file remains.
C6_TempFileRemoved ==
  SaveReturned =>
    \A f \in 0..(Len(input) - 1) : ~fs[TmpPath(OutputPath(f))].regular

\* save_output failed at write, close or rename: the temporary file is removed
C6_RemovedAfterWrite ==
  (/\ SaveReturned
   /\ \E i \in 1..Len(events) : events[i] = <<"open", events[Len(events)][2], TRUE>>)
  => ~fs[TmpPath(OutputPath(events[Len(events)][2]))].regular

\* C7: a target path changes only in the step of save_output that renames the
\* temporary file onto it, the temporary file being the image completely written
\* and closed, and save_output then returns true; a rename is attempted only right
\* after a write and a close that succeeded; and while the temporary file exists
\* no neighbor reader is open.
C7_TargetOnlyByRename ==
  /\ [](\A i \in 1..Len(events) :
          events[i][1] = "rename" =>
            /\ i > 2
            /\ events[i - 1] = <<"close", events[i][2], TRUE>>
            /\ events[i - 2] = <<"write", events[i][2], TRUE>>)
  /\ [](\A f \in 0..(Len(input) - 1) :
          fs[TmpPath(OutputPath(f))].regular => image.in_neighbors = <<>>)
  /\ [][\A f \in 0..(Len(input) - 1) :
          fs'[OutputPath(f)] # fs[OutputPath(f)] =>
            /\ pc = "save_rename"
            /\ task.frame = f
            /\ fs'[OutputPath(f)] =
                 WrittenFile(save.out_spec, image.pixels, TRUE)
            /\ fs'[OutputPath(f)] = fs[TmpPath(OutputPath(f))]
            /\ events'[Len(events')] = <<"save", f, TRUE>>]_vars

\* The save of a frame with a neighbor failed after the temporary file was
\* written, and the target still holds the file an earlier run left
C7_Witness ==
  /\ pc = "done"
  /\ run_result = "false"
  /\ params.neighbor_frames = 1 /\ Len(input) = 2
  /\ events[Len(events)] = <<"save", 0, FALSE>>
  /\ \E i \in 1..Len(events) : events[i] = <<"write", 0, TRUE>>
  /\ fs[OutputPath(0)] = OldFile

(***************************************************************************)
(* Loading: channel discovery, sample counts, neighbor frames              *)
(***************************************************************************)

\* One frame of one pixel from the whole family of files: each layer complete,
\* absent or lacking a channel, extra channels, either channel order, multiview
\* names, every sample string, samples_override positive, zero and negative
InitLoadOne ==
  \E kindA \in LayerKinds, kindB \in {"full", "absent", "no Combined.B"},
     extras \in BOOLEAN, reversed \in BOOLEAN, multiview \in BOOLEAN,
     sa \in SampleStrings, sb \in {<<>>, <<"1", "2">>, <<"x">>}, so \in {-1, 0, 3} :
    InitState(<<MakeFile(0, 1, 1,
                         FileChannelNames(kindA, kindB, extras, reversed, multiview),
                         FileAttributes(sa, sb, multiview), multiview,
                         TRUE, TRUE, TRUE)>>,
              <<OutputPath(0)>>, {}, so, [x |-> 1, y |-> 1], DefaultParams, 1, {}, {TRUE})

\* Two frames, each the neighbor of the other, whose files differ in layers,
\* channel order, width and in whether they can be found, opened and read
InitLoadTwo ==
  \E kindB0 \in {"full", "absent"}, rev0 \in BOOLEAN, readable0 \in BOOLEAN,
     kindA1 \in {"full", "no Noisy Image.G"}, kindB1 \in {"full", "absent"},
     rev1 \in BOOLEAN, w1 \in 1..2, status1 \in {"ok", "missing", "unopenable"} :
    InitState(<<MakeFile(0, 1, 1, FileChannelNames("full", kindB0, TRUE, rev0, FALSE),
                         FileAttributes(<<"4">>, <<"1", "2">>, FALSE), FALSE,
                         TRUE, TRUE, readable0),
                MakeFile(1, w1, 1, FileChannelNames(kindA1, kindB1, FALSE, rev1, FALSE),
                         FileAttributes(<<"4">>, <<"1", "2">>, FALSE), FALSE,
                         status1 # "missing", status1 = "ok", TRUE)>>,
              <<OutputPath(0), OutputPath(1)>>, {}, 0, [x |-> 1, y |-> 1],
              [DefaultParams EXCEPT !.neighbor_frames = 1], 1, {}, {TRUE})

InitLoad == InitLoadOne \/ InitLoadTwo

SpecLoad == InitLoad /\ [][Next]_vars

\* The pass.component name of each of the 15 input slots
CanonicalInput ==
  <<<<"Denoising Depth", ".", "Z">>,
    <<"Denoising Normal", ".", "X">>, <<"Denoising Normal", ".", "Y">>,
    <<"Denoising Normal", ".", "Z">>,
    <<"Denoising Shadowing", ".", "X">>,
    <<"Denoising Albedo", ".", "R">>, <<"Denoising Albedo", ".", "G">>,
    <<"Denoising Albedo", ".", "B">>,
    <<"Noisy Image", ".", "R">>, <<"Noisy Image", ".", "G">>, <<"Noisy Image", ".", "B">>,
    <<"Denoising Variance", ".", "R">>, <<"Denoising Variance", ".", "G">>,
    <<"Denoising Variance", ".", "B">>,
    <<"Denoising Intensity", ".", "X">>>>

\* The pass.component name of each of the 3 output slots
CanonicalOutput ==
  <<<<"Combined", ".", "R">>, <<"Combined", ".", "G">>, <<"Combined", ".", "B">>>>

\* The name in the file of channel canon of the layer with key `key`
ExpectedName(key, canon, multiview) ==
  IF multiview
  THEN <<key[1], ".", canon[1], ".", key[3], ".", canon[3]>>
  ELSE key \o <<".">> \o canon

\* The main thread is between a successful load of a frame and the end of its save
Loaded == pc \in {"exec", "task_wait", "save", "save_open", "save_write", "save_close",
                  "save_rename"}

\* Whether table maps every slot to a channel of the file named as names says
TableValid(table, names, key, in_spec) ==
  /\ Len(table) = Len(names)
  /\ \A i \in 1..Len(names) :
       /\ table[i] >= 0
       /\ table[i] < Len(in_spec.channelnames)
       /\ in_spec.channelnames[table[i] + 1]
            = ExpectedName(key, names[i], in_spec.multiview)

\* C8: after a successful load, every layer kept has all 15 input and all 3 output
\* table entries >= 0 and inside the file's channel list, each at the channel of
\* that layer with the slot's canonical name, and has samples >= 1; and while the
\* neighbors are open, every neighbor table entry is >= 0 and at the neighbor's
\* channel with the name of the center's channel for the slot.
C8_TablesValid ==
  Loaded =>
    \A k \in 1..Len(image.layers) :
      /\ TableValid(image.layers[k].input_to_image_channel, CanonicalInput,
                    image.layers[k].name, image.in_spec)
      /\ TableValid(image.layers[k].output_to_image_channel, CanonicalOutput,
                    image.layers[k].name, image.in_spec)
      /\ image.layers[k].samples >= 1
      /\ pc \in {"exec", "task_wait", "save"} =>
           /\ Len(image.in_neighbors) = Len(task.neighbor_frames)
           /\ Len(image.layers[k].neighbor_input_to_image_channel)
                = Len(image.in_neighbors)
           /\ \A n \in 1..Len(image.in_neighbors) :
                /\ Len(image.layers[k].neighbor_input_to_image_channel[n]) = 15
                /\ \A i \in 1..15 :
                     /\ image.layers[k].neighbor_input_to_image_channel[n][i] >= 0
                     /\ image.layers[k].neighbor_input_to_image_channel[n][i]
                          < Len(fs[image.in_neighbors[n]].spec.channelnames)
                     /\ fs[image.in_neighbors[n]].spec.channelnames[
                          image.layers[k].neighbor_input_to_image_channel[n][i] + 1]
                        = image.in_spec.channelnames[
                            image.layers[k].input_to_image_channel[i] + 1]

\* Two layers were kept from a file with extra channels, and the neighbor, whose
\* channels come in the opposite order, was matched
C8_Witness ==
  /\ pc = "exec"
  /\ Len(image.layers) = 2
  /\ Len(image.in_neighbors) = 1
  /\ Len(image.in_spec.channelnames) > 36
  /\ image.layers[1].neighbor_input_to_image_channel[1]
       # image.layers[1].input_to_image_channel

\* The file of the frame the task is for
CenterFile == fs[input[task.frame + 1]]

\* The range of a sequence
Range(seq) == {seq[k] : k \in 1..Len(seq)}

\* The render layers of a file that have at least one channel
ProvisionalKeys(in_spec) ==
  {key \in {LayerKeyA(in_spec.multiview), LayerKeyB(in_spec.multiview)} :
     \E canon \in Range(CanonicalInput) \cup Range(CanonicalOutput) :
       ExpectedName(key, canon, in_spec.multiview) \in Range(in_spec.channelnames)}

\* The render layers that have all 15 input and all 3 Combined channels among names
FullKeysAmong(names, multiview) ==
  {key \in {LayerKeyA(multiview), LayerKeyB(multiview)} :
     \A canon \in Range(CanonicalInput) \cup Range(CanonicalOutput) :
       ExpectedName(key, canon, multiview) \in names}

\* The render layers of a file that have all 15 input and all 3 Combined channels
FullKeys(in_spec) == FullKeysAmong(Range(in_spec.channelnames), in_spec.multiview)

\* The integer a sample string stands for
IntOf(n) == [kind |-> "int", val |-> n]

\* What the samples attribute of a layer says: the integer the string stands for,
\* "none" when there is no attribute or no number in it before the string ends,
\* "unparsable" when it starts with something that is no number
AttributeSamples(in_spec, key) ==
  IF SamplesAttr(key) \notin DOMAIN in_spec.attributes THEN [kind |-> "none", val |-> 0]
  ELSE CASE in_spec.attributes[SamplesAttr(key)] = <<"4">> -> IntOf(4)
         [] in_spec.attributes[SamplesAttr(key)] = <<"1", "2">> -> IntOf(12)
         [] in_spec.attributes[SamplesAttr(key)] = <<"0">> -> IntOf(0)
         [] in_spec.attributes[SamplesAttr(key)] = <<"-", "3">> -> IntOf(0 - 3)
         [] in_spec.attributes[SamplesAttr(key)] = <<"x">> ->
              [kind |-> "unparsable", val |-> 0]
         [] in_spec.attributes[SamplesAttr(key)] = <<" ">> -> [kind |-> "none", val |-> 0]
         [] in_spec.attributes[SamplesAttr(key)] = <<"2", "x">> -> IntOf(2)
         [] in_spec.attributes[SamplesAttr(key)] = <<" ", "7">> -> IntOf(7)

\* Whether the file gives a usable sample count for a layer
HasSamples(in_spec, key) ==
  /\ AttributeSamples(in_spec, key).kind = "int"
  /\ AttributeSamples(in_spec, key).val >= 1

\* The error parse_channels raises for a layer without a usable sample count
SamplesError(in_spec, key) ==
  IF AttributeSamples(in_spec, key).kind = "unparsable"
  THEN <<"Failed to parse samples metadata: ", in_spec.attributes[SamplesAttr(key)]>>
  ELSE <<"No sample number specified in the file for layer", key>>

\* The error of a file without a usable layer
NoLayerError == <<"Could not find a render layer containing denoising info">>

\* The load of the frame of the current task has failed
LoadFailed ==
  /\ Len(events) > 0
  /\ events[Len(events)][1] = "load"
  /\ ~events[Len(events)][3]
  /\ CenterFile.regular /\ CenterFile.openable

\* C9: a layer that lacks an input or Combined channel is dropped without an error
\* and without needing a sample count: after a successful load the layers kept
\* are exactly the layers of the file with the full channel set; a load fails for
\* want of a usable layer exactly when the file has no such layer; a load that
\* fails over a sample count fails over that of a layer with the full channel set;
\* and when some layer has the full set, every such layer has a usable sample
\* count and the pixels can be read, image.load succeeds whatever the other layers
\* lack (a load can then fail over a neighbor only).
C9_IncompleteLayerDropped ==
  /\ Loaded =>
       /\ Len(image.layers) = Cardinality(FullKeys(CenterFile.spec))
       /\ {image.layers[k].name : k \in 1..Len(image.layers)} = FullKeys(CenterFile.spec)
  /\ LoadFailed =>
       /\ error = NoLayerError <=> FullKeys(CenterFile.spec) = {}
       /\ error[1] \in {"Failed to parse samples metadata: ",
                        "No sample number specified in the file for layer"} =>
            \E key \in FullKeys(CenterFile.spec) :
              /\ samples_override < 1
              /\ ~HasSamples(CenterFile.spec, key)
              /\ error = SamplesError(CenterFile.spec, key)
       /\ (/\ FullKeys(CenterFile.spec) # {}
           /\ CenterFile.readable
           /\ \A key \in FullKeys(CenterFile.spec) :
                samples_override >= 1 \/ HasSamples(CenterFile.spec, key))
          => error[1] \in {"Couldn't find neighbor frame: ",
                           "Couldn't open neighbor frame: ",
                           "Neighbor frame has different dimensions: ",
                           "Neighbor frame misses denoising data passes: "}

\* A file whose first layer lacks a channel and has no samples attribute was
\* loaded: that layer was dropped and the second layer kept
C9_Witness ==
  /\ pc = "exec"
  /\ samples_override = 0
  /\ Len(image.layers) = 1
  /\ image.layers[1].name = LayerKeyB(image.in_spec.multiview)
  /\ LayerKeyA(image.in_spec.multiview) \in ProvisionalKeys(image.in_spec)
  /\ AttributeSamples(image.in_spec, LayerKeyA(image.in_spec.multiview)).kind = "none"

\* C10: every layer kept has samples equal to samples_override when that is
\* positive, and otherwise to the integer its cycles.<layer>.samples attribute
\* stands for; and when the override is not positive and a layer with the full
\* channel set has no attribute, or one that is unparsable or stands for less
\* than 1, the load of the frame fails with the error of such a layer, no tile of
\* the frame is handed out and neither its target nor its temporary file exists.
C10_SamplesResolved ==
  /\ Loaded =>
       \A k \in 1..Len(image.layers) :
         IF samples_override >= 1
         THEN image.layers[k].samples = samples_override
         ELSE /\ HasSamples(image.in_spec, image.layers[k].name)
              /\ image.layers[k].samples
                   = AttributeSamples(image.in_spec, image.layers[k].name).val
  /\ (/\ pc \notin {"run", "frame", "load"}
      /\ task.frame >= 0
      /\ CenterFile.regular /\ CenterFile.openable
      /\ samples_override < 1
      /\ \E key \in FullKeys(CenterFile.spec) : ~HasSamples(CenterFile.spec, key))
     => /\ events[Len(events)] = <<"load", task.frame, FALSE>>
        /\ pc = "done"
        /\ run_result = "false"
        /\ \E key \in FullKeys(CenterFile.spec) :
             /\ ~HasSamples(CenterFile.spec, key)
             /\ error = SamplesError(CenterFile.spec, key)
        /\ \A k \in 1..Len(handed) : handed[k].frame # task.frame
        /\ ~fs[OutputPath(task.frame)].regular
        /\ ~fs[TmpPath(OutputPath(task.frame))].regular

\* Without an override, the load of a file failed over the second of two layers
\* with the full channel set, whose samples attribute is no number
C10_Witness ==
  /\ pc = "done"
  /\ samples_override = 0
  /\ LoadFailed
  /\ Cardinality(FullKeys(CenterFile.spec)) = 2
  /\ HasSamples(CenterFile.spec, LayerKeyA(CenterFile.spec.multiview))
  /\ error = <<"Failed to parse samples metadata: ", <<"x">>>>
  /\ handed = <<>>

(***************************************************************************)
(* The pixels of a frame from load to save                                 *)
(***************************************************************************)

\* One frame of two pixels, in one or two tiles, up to MaxThreads worker threads,
\* a kernel that filters or skips each tile, a file whose layers are complete,
\* absent or lack a channel, with or without extra channels, in either order
InitPixels ==
  \E kindA \in {"full", "no Noisy Image.G", "no Combined.B"},
     kindB \in {"full", "absent", "no Combined.B"},
     extras \in BOOLEAN, reversed \in BOOLEAN, multiview \in BOOLEAN,
     tx \in 1..2, nt \in 1..MaxThreads :
    InitState(<<MakeFile(0, 2, 1,
                         FileChannelNames(kindA, kindB, extras, reversed, multiview),
                         FileAttributes(<<"4">>, <<"1", "2">>, multiview), multiview,
                         TRUE, TRUE, TRUE)>>,
              <<OutputPath(0)>>, {}, 0, [x |-> tx, y |-> 1], DefaultParams, nt, {},
              BOOLEAN)

SpecPixels == InitPixels /\ [][Next]_vars

\* The 0-based indices of the Combined channels of the layers keys of a file
CombinedOf(in_spec, keys) ==
  {c \in 0..(Len(in_spec.channelnames) - 1) :
     \E key \in keys, canon \in Range(CanonicalOutput) :
       in_spec.channelnames[c + 1] = ExpectedName(key, canon, in_spec.multiview)}

\* The 0-based indices of the Combined channels of the layers of a file that have
\* the full channel set
CombinedChannels(in_spec) == CombinedOf(in_spec, FullKeys(in_spec))

\* Whether pixels holds the values of file outside the channels in combined
SameOutside(pixels, file, combined) ==
  /\ Len(pixels) = Len(file.pixels)
  /\ \A k \in 1..Len(pixels) :
       ((k - 1) % Len(file.spec.channelnames)) \notin combined =>
         pixels[k] = file.pixels[k]

\* Whether pixels holds the values of file outside the Combined channels of the
\* layers with the full channel set
SameOutsideCombined(pixels, file) ==
  SameOutside(pixels, file, CombinedChannels(file.spec))

\* Whether pixels differs from file at every channel in combined
ChangedInside(pixels, file, combined) ==
  \A k \in 1..Len(pixels) :
    ((k - 1) % Len(file.spec.channelnames)) \in combined => pixels[k] # file.pixels[k]

\* C4: between a successful load of a frame and the end of its save, the pixel
\* buffer differs from the input file at the Combined channels of the layers kept
\* only; and the file that is written, the temporary file and then the target,
\* has the channels of the input file in their order and, outside those Combined
\* channels, its values.
C4_OnlyCombinedChanges ==
  /\ Loaded => SameOutsideCombined(image.pixels, CenterFile)
  /\ \A f \in 0..(Len(input) - 1) :
       \A path \in {OutputPath(f), TmpPath(OutputPath(f))} :
         (fs[path].regular /\ fs[path] # OldFile /\ fs[path].pixels # <<>>) =>
           /\ fs[path].spec.channelnames = fs[InputPath(f)].spec.channelnames
           /\ fs[path].spec.width = fs[InputPath(f)].spec.width
           /\ fs[path].spec.height = fs[InputPath(f)].spec.height
           /\ SameOutsideCombined(fs[path].pixels, fs[InputPath(f)])

\* A frame was saved whose file has extra channels and a second layer that was
\* dropped for want of Combined.B: the Combined channels of the first layer
\* changed in both pixels, Combined.R of the dropped layer did not
C4_Witness ==
  /\ pc = "free"
  /\ fs[OutputPath(0)].regular
  /\ FullKeys(fs[InputPath(0)].spec) = {<<"A">>}
  /\ <<"B", ".", "Combined", ".", "R">> \in Range(fs[InputPath(0)].spec.channelnames)
  /\ <<"Z">> \in Range(fs[InputPath(0)].spec.channelnames)
  /\ ChangedInside(fs[OutputPath(0)].pixels, fs[InputPath(0)],
                   CombinedChannels(fs[InputPath(0)].spec))

(***************************************************************************)
(* Neighbor frames that do not match the center                            *)
(***************************************************************************)

\* The frames within the temporal half-window of frame f, f excluded
NeighborWindow(f) ==
  {g \in 0..(Len(input) - 1) : g # f /\ Abs(g - f) <= params.neighbor_frames}

\* Whether the file of frame g, used as a neighbor of frame f, differs from the
\* file of f in width or height, or lacks a channel that f has for one of the 15
\* input slots of a layer with the full channel set
NeighborMismatch(f, g) ==
  LET c == fs[InputPath(f)].spec
      n == fs[InputPath(g)].spec
  IN /\ fs[InputPath(g)].regular /\ fs[InputPath(g)].openable
     /\ \/ c.width # n.width
        \/ c.height # n.height
        \/ \E key \in FullKeys(c), canon \in Range(CanonicalInput) :
             ExpectedName(key, canon, c.multiview) \notin Range(n.channelnames)

\* Whether the target of frame g holds the complete denoised image of its input
ValidOutput(g) ==
  /\ fs[OutputPath(g)].regular /\ fs[OutputPath(g)].openable /\ fs[OutputPath(g)].readable
  /\ fs[OutputPath(g)].spec.channelnames = fs[InputPath(g)].spec.channelnames
  /\ Len(fs[OutputPath(g)].pixels) = Len(fs[InputPath(g)].pixels)

\* C11: when a neighbor frame of the frame f of the task differs from the center in
\* width or height, or lacks a channel the center uses for an input slot of a layer
\* it keeps, the task never gets past load: the load of f is reported as failed and
\* is the last stage of the run, which has returned false with the task's error; no
\* tile of f was handed out, neither the target nor the temporary file of f was
\* written, no later frame was touched, and every earlier frame that was saved
\* still has its complete output.
C11_NeighborMismatchFailsLoad ==
  (/\ pc \notin {"run", "frame", "load"}
   /\ task.frame >= 0
   /\ \E g \in NeighborWindow(task.frame) : NeighborMismatch(task.frame, g))
  => /\ events[Len(events)] = <<"load", task.frame, FALSE>>
     /\ pc = "done"
     /\ run_result = "false"
     /\ error = task.error
     /\ error # <<>>
     /\ \A k \in 1..Len(handed) : handed[k].frame # task.frame
     /\ fs[OutputPath(task.frame)] \in {NoFile, OldFile}
     /\ fs[TmpPath(OutputPath(task.frame))] = NoFile
     /\ \A i \in 1..Len(events) : events[i][2] <= task.frame
     /\ \A g \in 0..(task.frame - 1) :
          (\E i \in 1..Len(events) : events[i] = <<"save", g, TRUE>>) => ValidOutput(g)

\* Frame 0 was denoised and saved with frame 1 as its neighbor; then the load of
\* frame 1, which has a second layer that its neighbor frame 0 lacks, failed
C11_Witness ==
  /\ pc = "done"
  /\ events[Len(events)] = <<"load", 1, FALSE>>
  /\ error[1] = "Neighbor frame misses denoising data passes: "
  /\ NeighborMismatch(1, 0)
  /\ fs[InputPath(0)].spec.width = fs[InputPath(1)].spec.width
  /\ \E i \in 1..Len(events) : events[i] = <<"save", 0, TRUE>>
  /\ ValidOutput(0)

(***************************************************************************)
(* The box blur of the intensity feature                                   *)
(***************************************************************************)

\* A file with the complete layer "A" whose values vary irregularly from pixel to
\* pixel
BlurFile(id, w, h) ==
  [PlainFile(id, w, h, FALSE) EXCEPT
     !.pixels = [k \in DOMAIN @ |-> ((k * k + 5 * id) % 23) + id]]

\* One or two frames (each the neighbor of the other) of one or two rows of up to
\* MaxBlurSize pixels, or of one column of up to MaxBlurSize pixels, in one tile,
\* with radius 0 and 1
InitBlur ==
  \E w \in 1..MaxBlurSize, h \in 1..MaxBlurSize, radius \in 0..1, n \in 1..2 :
    /\ w = 1 \/ h <= 2
    /\ InitState([k \in 1..n |-> BlurFile(k - 1, w, h)],
                 [k \in 1..n |-> OutputPath(k - 1)], {}, 0, [x |-> w, y |-> h],
                 [neighbor_frames |-> n - 1, radius |-> radius, clamp_input |-> FALSE],
                 1, {}, {TRUE})

SpecBlur == InitBlur /\ [][Next]_vars

\* The device input buffer holds the preprocessed slabs of the current layer
BufferReady == pc = "task_wait" \/ (pc = "exec" /\ task.current_layer = 0)

\* The frame whose file fills slab s of the input buffer
SlabFrame(s) == IF s = 0 THEN task.frame ELSE task.neighbor_frames[s]

\* The value the file of slab s holds at pixel p (0-based) for input slot j of the
\* current layer
RawValue(s, p, j) ==
  LET file == fs[InputPath(SlabFrame(s))]
      name == ExpectedName(image.layers[task.current_layer + 1].name,
                           CanonicalInput[j + 1], file.spec.multiview)
  IN file.pixels[p * Len(file.spec.channelnames)
                 + (CHOOSE c \in 1..Len(file.spec.channelnames) :
                      file.spec.channelnames[c] = name)]

\* Element of the input buffer: slab s, pixel p, slot j (all 0-based)
BufferAt(s, p, j) ==
  input_pixels[(s * image.width * image.height + p) * 15 + j + 1]

\* C12: with radius = 0 the box blur is the identity on slot 14 of every frame
\* slab: the window of each pass at every position is that position alone, so each
\* average is over one sample with denominator 1, and the buffer holds, for every
\* slab, pixel and slot, the value read from the file (clamp_input off).
C12_BlurRadiusZeroIdentity ==
  (BufferReady /\ params.radius = 0) =>
    /\ \A x \in 0..(image.width - 1) : BlurWindow(x, 5 * params.radius, image.width) = {x}
    /\ \A y \in 0..(image.height - 1) : BlurWindow(y, 5 * params.radius, image.height) = {y}
    /\ Len(input_pixels)
         = image.width * image.height * 15 * (Len(task.neighbor_frames) + 1)
    /\ \A s \in 0..Len(task.neighbor_frames), p \in 0..(image.width * image.height - 1) :
         /\ BufferAt(s, p, 14) = [num |-> RawValue(s, p, 14), den |-> 1]
         /\ \A j \in 0..13 : BufferAt(s, p, j) = RawValue(s, p, j)

\* With radius 0, the buffer of a frame of two rows of three pixels and of its
\* neighbor was loaded, and the intensity differs from pixel to pixel
C12_Witness ==
  /\ pc = "task_wait"
  /\ params.radius = 0
  /\ image.width >= 3 /\ image.height = 2
  /\ Len(image.in_neighbors) = 1
  /\ BufferAt(1, 0, 14) # BufferAt(1, 1, 14)
  /\ BufferAt(0, 4, 14).den = 1

\* The positions of 0..n-1 at distance at most r from x
SymmetricWindow(x, r, n) == {d \in 0..(n - 1) : d >= x - r /\ d <= x + r}

\* The positions of 0..n-1 in [x - r, x + r)
HalfOpenWindow(x, r, n) == {d \in 0..(n - 1) : d >= x - r /\ d < x + r}

\* The average of the file's intensity of slab s over the window of column x in
\* row y
HorizontalAverage(Win(_, _, _), s, x, y) ==
  RatDiv(RatSum([dx \in Win(x, 5 * params.radius, image.width) |->
                   Rat(RawValue(s, y * image.width + dx, 14), 1)],
                Win(x, 5 * params.radius, image.width)),
         Cardinality(Win(x, 5 * params.radius, image.width)))

\* The average of the horizontal averages over the window of row y in column x
VerticalAverage(Win(_, _, _), s, x, y) ==
  RatDiv(RatSum([dy \in Win(y, 5 * params.radius, image.height) |->
                   HorizontalAverage(Win, s, x, dy)],
                Win(y, 5 * params.radius, image.height)),
         Cardinality(Win(y, 5 * params.radius, image.height)))

\* Whether slot 14 of the input buffer is the two-pass average with the windows Win,
\* none of which is empty
BlurredOver(Win(_, _, _)) ==
  /\ \A x \in 0..(image.width - 1) : Win(x, 5 * params.radius, image.width) # {}
  /\ \A y \in 0..(image.height - 1) : Win(y, 5 * params.radius, image.height) # {}
  /\ \A s \in 0..Len(task.neighbor_frames) :
       \A x \in 0..(image.width - 1), y \in 0..(image.height - 1) :
         BufferAt(s, y * image.width + x, 14) = VerticalAverage(Win, s, x, y)

\* C19 as stated: for r = 5 * radius, the horizontal pass averages the intensity
\* over the columns [max(x-r,0), min(x+r,W)), the vertical pass averages the
\* temporary values over the rows [max(y-r,0), min(y+r,H)), each divided by the
\* number of samples in the window, which is never zero.
C19_HalfOpenWindows == BufferReady => BlurredOver(HalfOpenWindow)

\* C19: for r = 5 * radius, the horizontal pass averages the intensity over the
\* columns max(x-r,0) .. min(x+r,W-1), x+r included, the vertical pass averages the
\* temporary values over the rows max(y-r,0) .. min(y+r,H-1), each divided by the
\* number of samples in the window (shorter at the edges, never zero, no padding).
C19_SymmetricWindows == BufferReady => BlurredOver(SymmetricWindow)

\* With radius 1 (r = 5) a row of seven pixels was blurred: the window of the
\* first pixel has six samples, that of the second all seven, that of the last six
C19_Witness ==
  /\ pc = "task_wait"
  /\ params.radius = 1
  /\ image.width = 7 /\ image.height = 1
  /\ Cardinality(SymmetricWindow(0, 5, image.width)) = 6
  /\ Cardinality(SymmetricWindow(1, 5, image.width)) = 7
  /\ BufferAt(0, 0, 14) = VerticalAverage(SymmetricWindow, 0, 0, 0)
  /\ BufferAt(0, 0, 14) # BufferAt(0, 1, 14)

(***************************************************************************)
(* The pixel buffer under concurrent tile processing                       *)
(***************************************************************************)

\* The 1-based position of a channel name in the channel list of a file
ChannelAt(in_spec, name) ==
  CHOOSE c \in 1..Len(in_spec.channelnames) : in_spec.channelnames[c] = name

\* What a kernel that negates the noisy image leaves of a file: Combined channel i
\* of every layer with the full channel set holds minus the Noisy Image channel i
\* of the layer at the same pixel, every other element the file's value
DenoisedPixels(file, keys) ==
  [k \in 1..Len(file.pixels) |->
     LET p == (k - 1) \div Len(file.spec.channelnames)
         nm == file.spec.channelnames[((k - 1) % Len(file.spec.channelnames)) + 1]
         src == {<<key, i>> \in keys \X (1..3) :
                   nm = ExpectedName(key, CanonicalOutput[i], file.spec.multiview)}
     IN IF src = {} THEN file.pixels[k]
        ELSE LET e == CHOOSE e \in src : TRUE
             IN 0 - file.pixels[p * Len(file.spec.channelnames)
                                + ChannelAt(file.spec,
                                            ExpectedName(e[1], CanonicalInput[8 + e[2]],
                                                         file.spec.multiview))]]

\* The main thread is between the end of exec and the end of save
Executed == pc \in {"save", "save_open", "save_write", "save_close", "save_rename"}

\* C13: with a kernel that is a function of the tile and the input buffer (it
\* always filters, writing minus the noisy image), the pixel buffer after exec is
\* a function of the input file alone, the same for one and for several worker
\* threads and for every interleaving of their acquire, map, kernel and unmap
\* steps; and the file written holds these pixels.
C13_ScheduleIndependent ==
  kernel_modes = {TRUE} =>
    /\ Executed => image.pixels = DenoisedPixels(CenterFile, FullKeys(CenterFile.spec))
    /\ \A f \in 0..(Len(input) - 1) :
         (fs[OutputPath(f)].regular /\ fs[OutputPath(f)] # OldFile) =>
           fs[OutputPath(f)].pixels
             = DenoisedPixels(fs[InputPath(f)], FullKeys(fs[InputPath(f)].spec))

\* Two worker threads have denoised both layers of a frame of three pixels in two
\* tiles per layer, and the frame was saved
C13_Witness ==
  /\ pc = "free"
  /\ nthreads = 2
  /\ kernel_modes = {TRUE}
  /\ Len(handed) = 4
  /\ Cardinality(FullKeys(fs[InputPath(0)].spec)) = 2
  /\ fs[OutputPath(0)].regular
  /\ fs[OutputPath(0)].pixels # fs[InputPath(0)].pixels
  /\ fs[OutputPath(0)].pixels
       = DenoisedPixels(fs[InputPath(0)], FullKeys(fs[InputPath(0)].spec))

(***************************************************************************)
(* The seed of the per-tile output buffer                                  *)
(***************************************************************************)

\* One frame of every size up to MaxWidth x MaxHeight with one or two layers, every
\* tile size up to MaxTileSize x MaxTileSize, one worker thread, and a kernel that
\* leaves the output buffer of every tile untouched
InitSeed ==
  \E w \in 1..MaxWidth, h \in 1..MaxHeight, tx \in 1..MaxTileSize, ty \in 1..MaxTileSize,
     two_layers \in BOOLEAN :
    InitState(<<PlainFile(0, w, h, two_layers)>>, <<OutputPath(0)>>, {}, 0,
              [x |-> tx, y |-> ty], DefaultParams, 1, {}, {FALSE})

SpecSeed == InitSeed /\ [][Next]_vars

\* The value the file of the frame holds at pixel (px, py) for the channel `canon`
\* of the layer with key `key`
FileValueAt(file, px, py, key, canon) ==
  file.pixels[(py * file.spec.width + px) * Len(file.spec.channelnames)
              + ChannelAt(file.spec, ExpectedName(key, canon, file.spec.multiview))]

\* The element of the pixel buffer at pixel (px, py) for the channel `canon` of the
\* layer with key `key`
PixelAt(px, py, key, canon) ==
  image.pixels[(py * image.width + px) * image.num_channels
               + ChannelAt(image.in_spec,
                           ExpectedName(key, canon, image.in_spec.multiview))]

\* The threads between map_neighboring_tiles and the end of unmap_neighboring_tiles
Mapping ==
  {t \in Threads : threads[t].pc \in {"map", "map_lock", "map_register", "kernel",
                                      "unmap_lock", "unmap_take", "unmap_copy"}}

\* The tiles of the current layer that were handed out and unmapped again
Unmapped ==
  {e.tile : e \in {handed[k] : k \in {k \in 1..Len(handed) :
                                        /\ handed[k].frame = task.frame
                                        /\ handed[k].layer = task.current_layer
                                        /\ \A t \in Mapping :
                                             threads[t].tiles[4].tile_index
                                               # handed[k].tile.tile_index}}}

\* C14: with a kernel that leaves the output buffer untouched, the buffer that
\* map_neighboring_tiles made holds, for pixel (x, y) of the tile and k in 0..2, the
\* Noisy Image channel k of the current layer at pixel (cx+x, cy+y); after
\* unmap_neighboring_tiles every pixel of the tile has Combined channel k equal to
\* its Noisy Image channel k, for full and for clipped tiles; and after exec this
\* holds for every pixel and every layer kept.
C14_SeedIsNoisyImage ==
  kernel_modes = {FALSE} =>
    /\ pc = "task_wait" =>
         /\ \A t \in Threads :
              threads[t].pc \in {"map_lock", "map_register"} =>
                /\ Len(threads[t].output_mem)
                     = 3 * threads[t].tiles[4].w * threads[t].tiles[4].h
                /\ \A x \in 0..(threads[t].tiles[4].w - 1),
                      y \in 0..(threads[t].tiles[4].h - 1), k \in 0..2 :
                     threads[t].output_mem[(y * threads[t].tiles[4].w + x) * 3 + k + 1]
                       = FileValueAt(CenterFile, threads[t].tiles[4].x + x,
                                     threads[t].tiles[4].y + y,
                                     image.layers[task.current_layer + 1].name,
                                     CanonicalInput[9 + k])
         /\ \A tile \in Unmapped :
              \A px \in tile.x..(tile.x + tile.w - 1), py \in tile.y..(tile.y + tile.h - 1),
                 k \in 0..2 :
                PixelAt(px, py, image.layers[task.current_layer + 1].name,
                        CanonicalOutput[k + 1])
                  = FileValueAt(CenterFile, px, py,
                                image.layers[task.current_layer + 1].name,
                                CanonicalInput[9 + k])
    /\ Executed =>
         \A px \in 0..(image.width - 1), py \in 0..(image.height - 1),
            key \in FullKeys(CenterFile.spec), k \in 0..2 :
           PixelAt(px, py, key, CanonicalOutput[k + 1])
             = FileValueAt(CenterFile, px, py, key, CanonicalInput[9 + k])

\* A kernel that touches nothing has gone over an image of 3 x 2 pixels in tiles of
\* 2 x 2: the clipped tile of one column was unmapped and holds the noisy image in
\* its Combined channels, which differ from the file's
C14_Witness ==
  /\ pc = "task_wait"
  /\ kernel_modes = {FALSE}
  /\ image.width = 3 /\ image.height = 2 /\ tile_size = [x |-> 2, y |-> 2]
  /\ \E tile \in Unmapped : tile.w = 1 /\ tile.x = 2
  /\ PixelAt(2, 1, <<"A">>, CanonicalOutput[1])
       = FileValueAt(CenterFile, 2, 1, <<"A">>, CanonicalInput[9])
  /\ PixelAt(2, 1, <<"A">>, CanonicalOutput[1])
       # FileValueAt(CenterFile, 2, 1, <<"A">>, CanonicalOutput[1])

(***************************************************************************)
(* The temporal neighbors of a frame                                       *)
(***************************************************************************)

\* Sequences of up to MaxSequence frames of one pixel, any of them skipped, with
\* every temporal half-window from 0 to MaxHalfWindow
InitFrames ==
  \E n \in 1..MaxSequence, nf \in 0..MaxHalfWindow :
    \E skips \in SUBSET (0..(n - 1)) :
      InitState([k \in 1..n |-> PlainFile(k - 1, 1, 1, FALSE)],
                [k \in 1..n |-> IF k - 1 \in skips THEN <<>> ELSE OutputPath(k - 1)],
                {}, 0, [x |-> 1, y |-> 1],
                [DefaultParams EXCEPT !.neighbor_frames = nf], 1, {}, {TRUE})

SpecFrames == InitFrames /\ [][Next]_vars

\* C15: the neighbor list of the task of a frame holds exactly the frames g with
\* |g - frame| <= neighbor_frames, 0 <= g < number of frames, g # frame, in
\* strictly ascending order; the neighbor readers opened by its load are the files
\* of these frames in this order; and with neighbor_frames = 0 the list is empty
\* and no neighbor reader is ever open.
C15_NeighborList ==
  /\ task.frame >= 0 =>
       /\ Range(task.neighbor_frames) = NeighborWindow(task.frame)
       /\ \A i, j \in 1..Len(task.neighbor_frames) :
            i < j => task.neighbor_frames[i] < task.neighbor_frames[j]
       /\ pc \in {"exec", "task_wait", "save"} =>
            image.in_neighbors
              = [k \in 1..Len(task.neighbor_frames) |-> InputPath(task.neighbor_frames[k])]
       /\ \A k \in 1..Len(image.in_neighbors) :
            /\ k <= Len(task.neighbor_frames)
            /\ image.in_neighbors[k] = InputPath(task.neighbor_frames[k])
  /\ params.neighbor_frames = 0 => task.neighbor_frames = <<>> /\ image.in_neighbors = <<>>
  /\ task.frame < 0 => image.in_neighbors = <<>>

\* With a half-window of 2, frame 1 of four frames was loaded with the neighbors
\* 0, 2 and 3: the window is cut at the first frame and leaves out frame 1 itself
C15_Witness ==
  /\ pc = "exec"
  /\ task.frame = 1
  /\ Len(input) = 4
  /\ params.neighbor_frames = 2
  /\ task.neighbor_frames = <<0, 2, 3>>
  /\ image.in_neighbors = <<InputPath(0), InputPath(2), InputPath(3)>>

(***************************************************************************)
(* The 3 x 3 neighborhood of a tile                                        *)
(***************************************************************************)

\* The threads whose RenderTile[10] was filled by map_neighboring_tiles
Mapped ==
  {t \in Threads : threads[t].pc \in {"map_lock", "map_register", "kernel",
                                      "unmap_lock", "unmap_take", "unmap_copy"}}

\* Whether slot i of the tiles rt is as C16 says, the center being the tile at
\* grid position (tx, ty) of a grid of nx x ny tiles
SlotAsGrid(rt, i, tx, ty, nx, ny) ==
  LET gx == tx + (i % 3) - 1
      gy == ty + (i \div 3) - 1
  IN /\ rt[i].buffer = "input_pixels" /\ rt[i].offset = 0 /\ rt[i].stride = image.width
     /\ rt[i].x >= 0 /\ rt[i].w >= 0 /\ rt[i].x + rt[i].w <= image.width
     /\ rt[i].y >= 0 /\ rt[i].h >= 0 /\ rt[i].y + rt[i].h <= image.height
     /\ IF gx >= 0 /\ gx < nx /\ gy >= 0 /\ gy < ny
        THEN /\ rt[i].x = TaskTiles[gy * nx + gx + 1].x
             /\ rt[i].y = TaskTiles[gy * nx + gx + 1].y
             /\ rt[i].w = TaskTiles[gy * nx + gx + 1].w
             /\ rt[i].h = TaskTiles[gy * nx + gx + 1].h
        ELSE rt[i].w = 0 \/ rt[i].h = 0

\* C16: after map_neighboring_tiles on the center tile at grid position (tx, ty),
\* every slot i of 0..8 other than 4 has the rectangle of the grid tile at
\* (tx + (i%3) - 1, ty + (i/3) - 1) when the grid has that position, and otherwise
\* zero width or zero height inside [0,W] x [0,H]; each of the 8 slots carries the
\* input buffer, offset 0 and stride W; slot 4 is the tile acquire_tile handed out.
C16_NeighborSlotsMatchGrid ==
  pc = "task_wait" =>
    \A t \in Mapped :
      /\ threads[t].tiles[4] = TaskTiles[threads[t].tiles[4].tile_index + 1]
      /\ \A i \in (0..8) \ {4} :
           SlotAsGrid(threads[t].tiles, i,
                      threads[t].tiles[4].tile_index % Ceil(image.width, tile_size.x),
                      threads[t].tiles[4].tile_index \div Ceil(image.width, tile_size.x),
                      Ceil(image.width, tile_size.x), Ceil(image.height, tile_size.y))

\* The first tile of an image of 3 x 2 pixels in tiles of 2 x 1 was mapped: the
\* slots to the right are the clipped tiles of one column, the slots above have
\* zero height and the slots to the left zero width
C16_Witness ==
  /\ pc = "task_wait"
  /\ image.width = 3 /\ image.height = 2 /\ tile_size = [x |-> 2, y |-> 1]
  /\ \E t \in Mapped :
       /\ threads[t].tiles[4].tile_index = 0
       /\ threads[t].tiles[5].x = 2 /\ threads[t].tiles[5].w = 1
       /\ threads[t].tiles[8].x = 2 /\ threads[t].tiles[8].y = 1
       /\ threads[t].tiles[8].w = 1 /\ threads[t].tiles[8].h = 1
       /\ threads[t].tiles[1].h = 0 /\ threads[t].tiles[1].w = 2
       /\ threads[t].tiles[3].w = 0 /\ threads[t].tiles[3].h = 1

(***************************************************************************)
(* The elements unmap_neighboring_tiles writes                             *)
(***************************************************************************)

\* One frame of every size up to MaxWidth x MaxHeight in tiles MaxTileSize wide and
\* one row or MaxTileSize rows high, up to MaxThreads worker threads
InitCopy ==
  \E w \in 1..MaxWidth, h \in 1..MaxHeight, ty \in {1, MaxTileSize}, nt \in 1..MaxThreads :
    InitState(<<PlainFile(0, w, h, FALSE)>>, <<OutputPath(0)>>, {}, 0,
              [x |-> MaxTileSize, y |-> ty], DefaultParams, nt, {}, {TRUE})

SpecCopy == InitCopy /\ [][Next]_vars

\* The 0-based elements of the pixel buffer at the Combined channels of the current
\* layer inside the rectangle of a tile
WriteSet(tile) ==
  {((tile.y + y) * image.width + tile.x + x) * image.num_channels
     + image.layers[task.current_layer + 1].output_to_image_channel[k + 1] :
     <<x, y, k>> \in (0..(tile.w - 1)) \X (0..(tile.h - 1)) \X (0..2)}

\* Whether the step is the copy of unmap_neighboring_tiles by thread t
CopyStep(t) ==
  /\ pc = "task_wait"
  /\ threads[t].pc = "unmap_copy"
  /\ threads'[t].pc # "unmap_copy"

\* Whether the step put the output buffer of thread t into the rectangle of its
\* tile and left every other element as it was
CopiedInto(tile, out_buffer) ==
  /\ \A x \in 0..(tile.w - 1), y \in 0..(tile.h - 1), k \in 0..2 :
       image'.pixels[((tile.y + y) * image.width + tile.x + x) * image.num_channels
                     + image.layers[task.current_layer + 1].output_to_image_channel[k + 1]
                     + 1]
         = out_buffer[(y * tile.w + x) * 3 + k + 1]
  /\ \A e \in 0..(Len(image.pixels) - 1) :
       e \notin WriteSet(tile) => image'.pixels[e + 1] = image.pixels[e + 1]
  /\ Len(image'.pixels) = Len(image.pixels)

\* C17: the copy of unmap_neighboring_tiles puts out_buffer[(y*cw+x)*3+k] at pixel
\* (cx+x, cy+y), channel output_to_image_channel[k], for every pixel of the tile,
\* and changes no other element of the pixel buffer; and the elements that two
\* threads holding mapped tiles are going to write are disjoint, so two copies
\* that run at the same time outside the output mutex never write the same
\* element.
C17_UnmapWritesOwnRectangle ==
  /\ [](pc = "task_wait" =>
          \A t, u \in Mapped :
            t # u => WriteSet(threads[t].tiles[4]) \cap WriteSet(threads[u].tiles[4]) = {})
  /\ [][\A t \in Threads :
          CopyStep(t) => CopiedInto(threads[t].tiles[4], threads[t].output_mem)]_vars

\* Two threads are in the copy of unmap_neighboring_tiles at the same time, outside
\* the output mutex: one with the tile of two columns and two rows, one with the
\* clipped tile next to it
C17_Witness ==
  /\ pc = "task_wait"
  /\ nthreads = 2
  /\ image.width = 3 /\ image.height = 2 /\ tile_size = [x |-> 2, y |-> 2]
  /\ threads[1].pc = "unmap_copy" /\ threads[2].pc = "unmap_copy"
  /\ output_mutex = 0
  /\ threads[1].tiles[4].w = 2 /\ threads[1].tiles[4].h = 2
  /\ threads[2].tiles[4].x = 2 /\ threads[2].tiles[4].w = 1
  /\ Cardinality(WriteSet(threads[1].tiles[4])) = 12
  /\ Cardinality(WriteSet(threads[2].tiles[4])) = 6

(***************************************************************************)
(* Readers and writers of the pixel buffer during exec                     *)
(***************************************************************************)

\* The 0-based elements of the pixel buffer that map_neighboring_tiles reads for
\* the tile thread t holds
ReadSet(t) ==
  {SeedIndex(threads[t].tiles[4], image, image.layers[task.current_layer + 1], k) :
     k \in 1..(OUTPUT_NUM_CHANNELS * threads[t].tiles[4].w * threads[t].tiles[4].h)}

\* C18 as stated: while the tiles of a layer are processed no callback reads the
\* pixel buffer, so no thread is reading it while the copy of another thread's
\* unmap_neighboring_tiles is writing it.
C18_NoReadDuringTiling ==
  pc = "task_wait" =>
    /\ \A t \in Threads : threads[t].pc = "map" => ReadSet(t) = {}
    /\ \A t, u \in Threads :
         t # u => ~(threads[t].pc = "map" /\ threads[u].pc = "unmap_copy")

\* C18: during exec of a layer the pixel buffer is changed by the copy of
\* unmap_neighboring_tiles only; load_input_pixels and read_pixels run while no
\* worker thread runs; map_neighboring_tiles does read the pixel buffer while tiles
\* are processed, but only elements that no unmap of the layer writes (the Noisy
\* Image channels inside its own tile), so no thread reads an element that the
\* copy of another thread's unmap_neighboring_tiles is writing.
C18_ReadsDisjointFromWrites ==
  /\ [](pc \in {"load", "exec"} => \A t \in Threads : threads[t].pc = "off")
  /\ [](pc = "task_wait" =>
          \A t \in Threads :
            threads[t].pc = "map" =>
              /\ \A k \in 1..Len(TaskTiles) : ReadSet(t) \cap WriteSet(TaskTiles[k]) = {}
              /\ \A u \in Threads :
                   (u # t /\ threads[u].pc = "unmap_copy") =>
                     ReadSet(t) \cap WriteSet(threads[u].tiles[4]) = {}
              /\ \A e \in ReadSet(t) :
                   /\ e >= 0 /\ e < Len(image.pixels)
                   /\ InTile(threads[t].tiles[4], (e \div image.num_channels) % image.width,
                             (e \div image.num_channels) \div image.width))
  /\ [][(pc = "task_wait" /\ image'.pixels # image.pixels) =>
          \E t \in Threads : CopyStep(t)]_vars

\* One thread is about to read the pixel buffer in map_neighboring_tiles for the
\* clipped second tile while the copy of the other thread's unmap for the first
\* tile is writing it
C18_Witness ==
  /\ pc = "task_wait"
  /\ nthreads = 2
  /\ image.width = 3 /\ image.height = 2 /\ tile_size = [x |-> 2, y |-> 2]
  /\ threads[1].pc = "unmap_copy" /\ threads[1].tiles[4].tile_index = 0
  /\ threads[2].pc = "map" /\ threads[2].tiles[4].tile_index = 1
  /\ Cardinality(ReadSet(2)) = 6
  /\ ReadSet(2) \cap WriteSet(threads[1].tiles[4]) = {}

(***************************************************************************)
(* The order of the layers in exec                                         *)
(***************************************************************************)

\* The entries of handed for layer l of the frame of the task
HandedFor(l) ==
  {k \in 1..Len(handed) : handed[k].frame = task.frame /\ handed[k].layer = l}

\* exec handles one layer at a time: no tile of a later layer is handed out
\* before the layer's turn, tiles are handed out in layer order, between two
\* device tasks no worker thread runs and no tile of the next layer has been
\* handed out, and while the device task of a layer runs the slab of the center
\* frame in the input buffer holds the values of that layer (slots 0..13, which
\* the blur leaves alone)
OneTaskPerLayer ==
  /\ pc \in {"exec", "task_wait"} =>
       /\ \A l \in 0..(Len(image.layers) - 1) :
            l > task.current_layer => HandedFor(l) = {}
       /\ \A i, j \in 1..Len(handed) :
            (i < j /\ handed[i].frame = handed[j].frame) =>
              handed[i].layer <= handed[j].layer
  /\ pc = "exec" =>
       /\ \A t \in Threads : threads[t].pc = "off"
       /\ task.current_layer < Len(image.layers) => HandedFor(task.current_layer) = {}
  /\ pc = "task_wait" =>
       /\ task.current_layer < Len(image.layers)
       /\ task.num_tiles = Len(create_task_tiles)
       /\ \A p \in 0..(image.width * image.height - 1), j \in 0..13 :
            BufferAt(0, p, j) = RawValue(0, p, j)

\* C20 as stated: the layers kept are in discovery order, each layer's first
\* channel coming earlier in the file's channel list than that of the next layer;
\* exec handles them in this order, one device task per layer.
C20_LayersInDiscoveryOrder ==
  /\ Loaded =>
       \A i, j \in 1..Len(image.layers) :
         i < j => image.layers[i].layer_to_image_channel[1]
                    < image.layers[j].layer_to_image_channel[1]
  /\ OneTaskPerLayer

\* C20: the layers kept are in ascending order of their names, wherever their
\* channels stand in the file's channel list; exec handles them in this order: for
\* layer 0 it uses the input buffer that load filled, for each later layer it
\* reloads the buffer first, and for each layer it submits one device task and
\* waits for it before it goes on to the next layer.
C20_LayersInNameOrder ==
  /\ Loaded =>
       /\ \A k \in 1..Len(image.layers) :
            image.layers[k].name \in {LayerKeyA(image.in_spec.multiview),
                                      LayerKeyB(image.in_spec.multiview)}
       /\ \A i, j \in 1..Len(image.layers) :
            i < j => /\ image.layers[i].name = LayerKeyA(image.in_spec.multiview)
                     /\ image.layers[j].name = LayerKeyB(image.in_spec.multiview)
  /\ OneTaskPerLayer

\* The device task of the second layer runs for a file in which the channels of
\* layer "B" come before those of layer "A": layer "A" was handled first, and the
\* input buffer was reloaded for "B"
C20_Witness ==
  /\ pc = "task_wait"
  /\ task.current_layer = 1
  /\ image.layers[1].name = <<"A">> /\ image.layers[2].name = <<"B">>
  /\ image.layers[2].layer_to_image_channel[1] < image.layers[1].layer_to_image_channel[1]
  /\ Cardinality(HandedFor(0)) = 1
  /\ BufferAt(0, 0, 0) = RawValue(0, 0, 0)
  /\ BufferAt(0, 0, 0) # CenterFile.pixels[image.layers[1].input_to_image_channel[1] + 1]

(***************************************************************************)
(* The pixels read from neighbor frames                                    *)
(***************************************************************************)

\* Two frames of two pixels, each the neighbor of the other; both files hold the
\* complete layer "A", and each holds or lacks layer "B" and the extra channels
\* and has its channels in either order
InitNeighbor ==
  \E kindB0 \in {"full", "absent"}, extras0 \in BOOLEAN, rev0 \in BOOLEAN,
     kindB1 \in {"full", "absent"}, extras1 \in BOOLEAN, rev1 \in BOOLEAN :
    InitState(<<MakeFile(0, 2, 1, FileChannelNames("full", kindB0, extras0, rev0, FALSE),
                         FileAttributes(<<"4">>, <<"1", "2">>, FALSE), FALSE,
                         TRUE, TRUE, TRUE),
                MakeFile(1, 2, 1, FileChannelNames("full", kindB1, extras1, rev1, FALSE),
                         FileAttributes(<<"4">>, <<"1", "2">>, FALSE), FALSE,
                         TRUE, TRUE, TRUE)>>,
              <<OutputPath(0), OutputPath(1)>>, {}, 0, [x |-> 2, y |-> 1],
              [DefaultParams EXCEPT !.neighbor_frames = 1], 1, {}, {TRUE})

SpecNeighbor == InitNeighbor /\ [][Next]_vars

\* The file of neighbor slab s (s >= 1) of the current device task
NeighborFile(s) == fs[image.in_neighbors[s]]

\* Slab s of the input buffer holds, for every pixel and every slot that the
\* preprocessing leaves alone, the value of the neighbor file's channel of the
\* name of the center's channel of that slot
NeighborSlabRight(s) ==
  \A p \in 0..(image.width * image.height - 1), j \in 0..13 :
    BufferAt(s, p, j) = RawValue(s, p, j)

\* Every index read_neighbor_pixels takes for slab s lies inside its temporary
\* buffer, and the buffer holds the whole image that read_image writes into it
NeighborReadsInside(s) ==
  /\ Len(NeighborFile(s).pixels) <= image.width * image.height * image.num_channels
  /\ \A l \in 1..Len(image.layers), p \in 0..(image.width * image.height - 1),
        j \in 0..(INPUT_NUM_CHANNELS - 1) :
       NeighborIndex(image, s - 1, image.layers[l], p, j)
         < image.width * image.height * image.num_channels

\* C21: while a device task runs, every neighbor slab of the input buffer holds
\* at pixel i and slot j the value, at pixel i of the neighbor file, of the
\* neighbor's channel named as the center's channel of slot j, whatever the number
\* and order of the neighbor's channels, and read_neighbor_pixels never indexes
\* outside its temporary buffer.
C21_NeighborPixelsByName ==
  pc = "task_wait" =>
    \A s \in 1..Len(image.in_neighbors) :
      NeighborSlabRight(s) /\ NeighborReadsInside(s)

\* The same for the neighbors that have as many channels as the center file, in
\* any order
C21_SameChannelCount ==
  pc = "task_wait" =>
    \A s \in 1..Len(image.in_neighbors) :
      NeighborFile(s).spec.nchannels = image.num_channels =>
        NeighborSlabRight(s) /\ NeighborReadsInside(s)

\* A device task runs with a neighbor that has as many channels as the center, in
\* the opposite order
C21_Witness ==
  /\ pc = "task_wait"
  /\ Len(image.in_neighbors) = 1
  /\ NeighborFile(1).spec.nchannels = image.num_channels
  /\ NeighborFile(1).spec.channelnames = Reverse(image.in_spec.channelnames)
  /\ BufferAt(1, 1, 0) = RawValue(1, 1, 0)

\* A device task runs with a neighbor that has fewer channels than the center: the
\* second pixel of the neighbor slab holds the value of another channel
C21_FewerChannels ==
  /\ pc = "task_wait"
  /\ Len(image.in_neighbors) = 1
  /\ NeighborFile(1).spec.nchannels < image.num_channels
  /\ NeighborReadsInside(1)
  /\ BufferAt(1, 0, 0) = RawValue(1, 0, 0)
  /\ BufferAt(1, 1, 0) # RawValue(1, 1, 0)

\* A device task runs with a neighbor that has more channels than the center:
\* read_image writes past the end of the temporary buffer
C21_MoreChannels ==
  /\ pc = "task_wait"
  /\ Len(image.in_neighbors) = 1
  /\ NeighborFile(1).spec.nchannels > image.num_channels
  /\ ~NeighborReadsInside(1)

(***************************************************************************)
(* Frames with an empty output path                                        *)
(***************************************************************************)

\* The frames Denoiser::run skips
Skipped == {f \in 0..(Len(output) - 1) : output[f + 1] = <<>>}

\* Nothing is done for a skipped frame: it is never the frame of a task, no stage
\* of load, exec or save is reported for it, and no tile is handed out for it
SkippedUntouched ==
  \A f \in Skipped :
    /\ task.frame # f
    /\ \A i \in 1..Len(events) :
         events[i][2] = f => events[i] = <<"skip", f, TRUE>>
    /\ \A k \in 1..Len(handed) : handed[k].frame # f

\* Skipping is no failure: after a skip the run is at the head of the loop for
\* the next frame, or loads that frame, or has returned true; a run fails only in a stage
\* of a frame that is not skipped, and a run that has passed every frame succeeds
SkipNoFailure ==
  /\ (Len(events) > 0 /\ events[Len(events)][1] = "skip") =>
       /\ frame = events[Len(events)][2] + 1
       /\ \/ pc = "frame"
          \/ pc = "load" /\ task.frame = frame
          \/ pc = "done" /\ run_result = "true"
  /\ (pc = "done" /\ run_result = "false") =>
       /\ Len(events) > 0
       /\ StageFailed(events[Len(events)])
       /\ events[Len(events)][2] \notin Skipped
  /\ (pc = "done" /\ frame >= num_frames /\ num_frames = Len(output)) =>
       /\ run_result = "true"
       /\ \A f \in Skipped : \E i \in 1..Len(events) : events[i] = <<"skip", f, TRUE>>

\* A step changes only the output file and the temporary file of the frame of the
\* current task, never a file of a skipped frame
WritesOnlyForTask ==
  \A path \in DOMAIN fs :
    fs'[path] # fs[path] =>
      /\ task.frame \notin Skipped
      /\ path \in {OutputPath(task.frame), TmpPath(OutputPath(task.frame))}

\* C22: a frame whose output path is empty is skipped: no task is made for it, it
\* is never loaded as a center frame, no tile of it is handed to the device, no
\* output or temporary file is written for it; the run goes on with the next
\* frame, and a skip never makes the run fail.
C22_EmptyOutputSkipsFrame ==
  /\ [](SkippedUntouched /\ SkipNoFailure)
  /\ [][WritesOnlyForTask]_vars

\* Frame 0 is skipped and frame 1 is denoised with frame 0 as its neighbor: the
\* device task of frame 1 runs, and no file of frame 0 exists apart from its input
C22_Witness ==
  /\ pc = "task_wait"
  /\ task.frame = 1
  /\ output[1] = <<>>
  /\ events[1] = <<"skip", 0, TRUE>>
  /\ image.in_neighbors = <<InputPath(0)>>
  /\ fs[OutputPath(0)] = NoFile

(***************************************************************************)
(* The frame offsets and the slabs of the device task                      *)
(***************************************************************************)

\* The value that the file of frame f holds at pixel p for input slot j of the
\* current layer
FrameValue(f, p, j) ==
  LET file == fs[InputPath(f)]
      name == ExpectedName(image.layers[task.current_layer + 1].name,
                           CanonicalInput[j + 1], file.spec.multiview)
  IN file.pixels[p * Len(file.spec.channelnames)
                 + (CHOOSE c \in 1..Len(file.spec.channelnames) :
                      file.spec.channelnames[c] = name)]

SavePcs == {"save", "save_open", "save_write", "save_close", "save_rename"}

TaskPcs == {"load", "exec", "task_wait", "free"} \cup SavePcs

\* The place of a stage in the sequence of a task
StageRank(stage) ==
  CASE stage = "load" -> 1
    [] stage = "exec" -> 2
    [] stage = "save" -> 3
    [] OTHER -> 0

\* The reports of the stages load, exec and save, in the order they were made
StageEvents == SelectSeq(events, LAMBDA e : StageRank(e[1]) > 0)

\* No worker thread is inside a device callback, and no callback holds a lock
NoCallbackRuns ==
  /\ \A t \in Threads : threads[t].pc = "off"
  /\ tiles_mutex = 0 /\ output_mutex = 0

\* The stages come frame by frame in ascending order, and load, exec, save in this
\* order within a frame, each after the success of the one before
StagesInOrder ==
  /\ \A i, j \in 1..Len(events) : i < j => events[i][2] <= events[j][2]
  /\ \A i, j \in 1..Len(StageEvents) :
       i < j => \/ StageEvents[i][2] < StageEvents[j][2]
                \/ /\ StageEvents[i][2] = StageEvents[j][2]
                   /\ StageRank(StageEvents[i][1]) < StageRank(StageEvents[j][1])
  /\ \A j \in 1..Len(StageEvents) :
       /\ StageRank(StageEvents[j][1]) > 1 =>
            /\ j > 1
            /\ StageEvents[j - 1][2] = StageEvents[j][2]
            /\ StageRank(StageEvents[j - 1][1]) = StageRank(StageEvents[j][1]) - 1
            /\ StageEvents[j - 1][3]
       /\ (StageRank(StageEvents[j][1]) = 1 /\ j > 1) =>
            StageEvents[j - 1] = <<"save", StageEvents[j - 1][2], TRUE>>

\* Where the run is agrees with what has been reported: a task is the task of the
\* current frame; while it loads, every earlier frame is past its save; its save
\* runs after exec returned true with every layer handled; and outside exec no
\* device callback runs
OneFrameAtATime ==
  /\ pc \in TaskPcs => task.frame = frame
  /\ pc = "load" =>
       /\ \A i \in 1..Len(events) : events[i][2] < frame
       /\ Len(StageEvents) > 0 =>
            StageEvents[Len(StageEvents)] = <<"save", StageEvents[Len(StageEvents)][2], TRUE>>
  /\ pc \in {"exec", "task_wait"} =>
       /\ Len(StageEvents) > 0
       /\ StageEvents[Len(StageEvents)] = <<"load", frame, TRUE>>
  /\ pc \in SavePcs =>
       /\ task.current_layer = Len(image.layers)
       /\ \E i \in 1..Len(events) : events[i] = <<"exec", frame, TRUE>>
       /\ \A i \in 1..Len(events) : events[i][1] # "save" \/ events[i][2] < frame
  /\ pc # "task_wait" => NoCallbackRuns

\* The frame number goes up by one at a time, and a worker thread moves, or a tile
\* is handed out, only between task_add and the return of task_wait, for the
\* frame of the task
CallbacksOnlyInExec ==
  /\ frame' = frame \/ frame' = frame + 1
  /\ threads' # threads => pc \in {"exec", "task_wait"} /\ pc' \in {"exec", "task_wait"}
  /\ handed' # handed =>
       /\ pc = "task_wait" /\ pc' = "task_wait"
       /\ handed'[Len(handed')].frame = frame

\* C24: frames are processed one at a time in ascending order; load of a frame
\* completes before its exec starts and exec before its save; save starts only
\* after task_wait has returned for the last layer, so no device callback of the
\* task runs during or after its save; and the load of the next frame starts only
\* after the save of the frame before has returned.
C24_FramesAndStagesInOrder ==
  /\ [](StagesInOrder /\ OneFrameAtATime)
  /\ [][CallbacksOnlyInExec]_vars

\* The second frame loads after the first was denoised by a device task and saved
C24_Witness ==
  /\ pc = "load"
  /\ frame = 1
  /\ StageEvents = <<<<"load", 0, TRUE>>, <<"exec", 0, TRUE>>, <<"save", 0, TRUE>>>>
  /\ \E k \in 1..Len(handed) : handed[k].frame = 0
  /\ fs[OutputPath(0)].regular

(***************************************************************************)
(* Locks and progress of the device task                                   *)
(***************************************************************************)

\* The steps of worker thread t
ThreadStep(t) ==
  \/ AcquireLock(t) \/ AcquireFront(t) \/ AcquirePop(t)
  \/ MapNeighboringTiles(t) \/ MapLock(t) \/ MapRegister(t)
  \/ Kernel(t)
  \/ UnmapLock(t) \/ UnmapTake(t) \/ UnmapCopy(t)

\* One frame of one row of up to MaxWidth pixels, each pixel a tile, and up to
\* MaxThreads worker threads
InitProgress ==
  \E w \in 1..MaxWidth, nt \in 1..MaxThreads :
    InitState(<<PlainFile(0, w, 1, FALSE)>>, <<OutputPath(0)>>, {}, 0,
              [x |-> 1, y |-> 1], DefaultParams, nt, {}, {TRUE})

\* The runs in which the device runs its threads fairly: a worker thread that can
\* take a step, and stays able to, takes one in the end, and task_wait returns in
\* the end once every worker thread has ended
SpecProgress ==
  /\ InitProgress /\ [][Next]_vars
  /\ WF_vars(TaskWait)
  /\ \A t \in 1..MaxThreads : WF_vars(t \in Threads /\ ThreadStep(t))

\* The threads inside acquire_tile under the tile lock, and inside
\* map_neighboring_tiles or unmap_neighboring_tiles under the output lock
TileLockPcs == {"acquire_front", "acquire_pop"}

OutputLockPcs == {"map_register", "unmap_take"}

\* A lock is owned by the thread that is in the section it guards and by no other;
\* no thread owns both; and when exec calls create_task, which takes both, no
\* thread runs and both are free
LockDiscipline ==
  /\ \A t \in Threads :
       /\ tiles_mutex = t <=> threads[t].pc \in TileLockPcs
       /\ output_mutex = t <=> threads[t].pc \in OutputLockPcs
       /\ ~(tiles_mutex = t /\ output_mutex = t)
  /\ tiles_mutex \in Threads \cup {0} /\ output_mutex \in Threads \cup {0}
  /\ pc # "task_wait" =>
       /\ tiles_mutex = 0 /\ output_mutex = 0
       /\ \A t \in Threads : threads[t].pc = "off"

\* While the device task runs, some worker thread can take a step or task_wait
\* can return
NoDeadlock == pc = "task_wait" => ENABLED (Worker \/ TaskWait)

\* Tile k waits in the queue of the device task
Queued(k) == pc = "task_wait" /\ \E i \in 1..Len(tiles) : tiles[i].tile_index = k

\* Tile k was handed out by acquire_tile for the current layer
Acquired(k) == \E i \in HandedFor(task.current_layer) : handed[i].tile.tile_index = k

\* The output buffer of tile k is in the registry: the tile is mapped and not yet
\* unmapped
InRegistry(k) == k \in DOMAIN output_pixels

\* The device task of a layer has returned from task_wait with every tile handed
\* out once, nothing left in the queue or the registry, and the result of the
\* kernel written back for every pixel
LayerDone ==
  /\ pc = "exec"
  /\ task.current_layer > 0
  /\ tiles = <<>>
  /\ DOMAIN output_pixels = {}
  /\ Cardinality(HandedFor(task.current_layer - 1)) = task.num_tiles
  /\ {handed[i].tile.tile_index : i \in HandedFor(task.current_layer - 1)}
       = 0..(task.num_tiles - 1)
  /\ image.pixels
       = DenoisedPixels(CenterFile,
                        {image.layers[l].name : l \in 1..task.current_layer})

\* The largest number of tiles of a device task
MaxTiles == MaxWidth

\* C25: no device callback holds the tile lock and the output lock at once, and
\* create_task, which takes both, runs while no callback does; with any number of
\* worker threads no deadlock is reachable; and under fair scheduling every tile
\* in the queue is acquired, mapped and unmapped in the end and the device task
\* completes.
C25_NoDeadlockAndProgress ==
  /\ [](LockDiscipline /\ NoDeadlock)
  /\ [](\A k \in 0..(MaxTiles - 1) : InRegistry(k) => Acquired(k))
  /\ \A k \in 0..(MaxTiles - 1) :
       /\ Queued(k) ~> InRegistry(k)
       /\ InRegistry(k) ~> ~InRegistry(k)
  /\ (pc = "task_wait") ~> LayerDone

\* Two worker threads are inside callbacks at once, one under the tile lock and
\* one under the output lock, while a tile still waits in the queue
C25_Witness ==
  /\ pc = "task_wait"
  /\ nthreads >= 2
  /\ tiles_mutex # 0 /\ output_mutex # 0
  /\ tiles_mutex # output_mutex
  /\ Len(tiles) > 0

(***************************************************************************)
(* Denoising in place                                                      *)
(***************************************************************************)

\* Up to MaxFrames frames of one or two pixels with one or two layers, with or
\* without neighbor frames; any of the frames is denoised in place, its output
\* path being its input path
InitInPlace ==
  \E n \in 1..MaxFrames, nf \in 0..1, w \in 1..2, two_layers \in BOOLEAN :
    \E inplace \in SUBSET (0..(n - 1)) :
      InitState([k \in 1..n |-> PlainFile(k - 1, w, 1, two_layers)],
                [k \in 1..n |-> IF k - 1 \in inplace THEN InputPath(k - 1)
                                ELSE OutputPath(k - 1)],
                {}, 0, [x |-> 2, y |-> 1],
                [DefaultParams EXCEPT !.neighbor_frames = nf], 1, {}, {TRUE})

SpecInPlace == InitInPlace /\ [][Next]_vars

\* The frames denoised in place
InPlace == {f \in 0..(Len(input) - 1) : output[f + 1] = input[f + 1]}

\* The value that the input file of frame f held at pixel p, channel c (0-based)
\* before the run
OriginalAt(f, p, c) == FilePixelValue(f, p, c)

\* The value that the input file of frame f held before the run at pixel p for
\* input slot j of the current layer
OriginalValue(f, p, j) ==
  LET file == fs[InputPath(f)]
      name == ExpectedName(image.layers[task.current_layer + 1].name,
                           CanonicalInput[j + 1], file.spec.multiview)
  IN OriginalAt(f, p, (CHOOSE c \in 1..Len(file.spec.channelnames) :
                         file.spec.channelnames[c] = name) - 1)

\* The input file of frame f differs from what it held before the run at the
\* Combined channels of its layers only, and only once the frame was saved in place
ChangedAtCombinedOnly(f) ==
  LET file == fs[InputPath(f)]
      n == Len(file.spec.channelnames)
  IN /\ file.regular
     /\ Len(file.pixels) = file.spec.width * file.spec.height * n
     /\ \A k \in 1..Len(file.pixels) :
          file.pixels[k] # OriginalAt(f, (k - 1) \div n, (k - 1) % n) =>
            /\ ((k - 1) % n) \in CombinedChannels(file.spec)
            /\ f \in InPlace
            /\ \E i \in 1..Len(events) : events[i] = <<"rename", f, TRUE>>

\* The channels of the center file that write-back writes are none of those read
\* into an input slot, for any two layers
WrittenNotRead ==
  \A l, m \in 1..Len(image.layers) :
    Range(image.layers[l].output_to_image_channel)
      \cap Range(image.layers[m].input_to_image_channel) = {}

====
